---- MODULE Spec2Model ----
(***************************************************************************)
(* Model of the WebGraph class (src/src/WebGraph/index.ts): activation     *)
(* state, the mutation methods, the undo/redo engine, the history log and  *)
(* the sub-graph highlighting of the hover listeners.                      *)
(* Every method is a function from the object's state (a record S with one *)
(* field per member of the class) to the state after the call; a thrown    *)
(* error is the field `thrown`, the returned value the field `ret`.        *)
(*                                                                         *)
(* The graph store (graphology) and the renderer (sigma.js) are external   *)
(* libraries; the operations of them that the class calls are modelled by  *)
(* their documented behaviour on values (attribute bags are copied, never  *)
(* shared).  The HistoryManager class (./History) is imported by index.ts  *)
(* but its file is not part of the sources; it is modelled from the        *)
(* specification's description of the history log.                         *)
(***************************************************************************)
EXTENDS Integers, Sequences, FiniteSets, TLC

\* ------------------------------------------------------------------ bounds
\* number of calls of the public methods in one run
MaxCalls == 4
\* number of calls in one run of a widget with history (HistorySpec)
MaxHistoryCalls == 5
\* number of calls and pointer events in one run with hovering (HoverSpec)
MaxHoverCalls == 4
\* number of calls in one run of merges and replacements (MergeSpec)
MaxMergeCalls == 4
\* number of calls in one run of scalar mutations (ScalarSpec)
MaxScalarCalls == 5
\* number of calls in one run of TimerSpec (the timers that fire do not count)
MaxTimerCalls == 4
\* number of calls in one run of LayoutSpec (the animations that end do not
\* count)
MaxLayoutCalls == 4
\* number of calls and events in one run of ContextMenuSpec
MaxContextMenuCalls == 5
\* number of calls and events in one run of ExportSpec
MaxExportCalls == 4
\* number of calls and events in one run of NeighborhoodSpec
MaxNeighborhoodCalls == 4
\* number of calls and events in one run of PointerSpec
MaxPointerCalls == 6
\* the number of calls in a run over the life cycle of LifeCycleSpec
MaxLifeCycleCalls == 6

\* ------------------------------------------------------- values and helpers
Undefined == "undefined"
ACTIVE == "ACTIVE"
INACTIVE == "INACTIVE"
STATIC == "static"
DYNAMIC == "dynamic"
RING == "ring"
CIRCLE == "circle"

\* an optional boolean argument: <<>> when omitted, <<b>> when given
None == <<>>
Some(b) == <<b>>
IsGiven(o) == Len(o) > 0
OptBool == {None, Some(TRUE), Some(FALSE)}

\* a plain object without properties, {} in the source
EmptyBag == [a \in {} |-> 0]
Has(d, f) == f \in DOMAIN d

\* Object.assign({}, a, b): the properties of b override those of a
Assign(a, b) ==
  [f \in (DOMAIN a) \cup (DOMAIN b) |-> IF f \in DOMAIN b THEN b[f] ELSE a[f]]

Restrict(f, S) == [k \in S |-> f[k]]

\* ------------------------------------------------ the graph store (graphology)
\* graphData = [nodes: key -> attributes, edges: key -> (source, target, attributes)]
hasNode(g, k) == k \in DOMAIN g.nodes

getNodeAttributes(g, k) == g.nodes[k]

\* Graph#mergeNode: creates the node, or merges the attributes into the existing one
mergeNode(g, k, attrs) ==
  [g EXCEPT !.nodes =
     [n \in (DOMAIN g.nodes) \cup {k} |->
        IF n = k
          THEN (IF k \in DOMAIN g.nodes THEN Assign(g.nodes[k], attrs) ELSE attrs)
          ELSE g.nodes[n]]]

\* Graph#edges(node): the keys of the edges incident to the node
edgesOf(g, k) ==
  {e \in DOMAIN g.edges : g.edges[e].source = k \/ g.edges[e].target = k}

\* Graph#hasEdge(source, target)
hasEdge(g, s, t) ==
  \E e \in DOMAIN g.edges : g.edges[e].source = s /\ g.edges[e].target = t

\* Graph#dropNode: removes the node and every edge incident to it
dropNode(g, k) ==
  [nodes |-> Restrict(g.nodes, (DOMAIN g.nodes) \ {k}),
   edges |-> Restrict(g.edges, (DOMAIN g.edges) \ edgesOf(g, k))]

\* Graph#mergeEdgeWithKey: merges the attributes into the edge with that key,
\* or adds the edge, adding its end nodes when they are missing
mergeEdgeWithKey(g, key, s, t, attrs) ==
  IF key \in DOMAIN g.edges
    THEN [g EXCEPT !.edges[key].attributes = Assign(@, attrs)]
    ELSE LET g1 == IF hasNode(g, s) THEN g ELSE mergeNode(g, s, EmptyBag)
             g2 == IF hasNode(g1, t) THEN g1 ELSE mergeNode(g1, t, EmptyBag)
         IN  [g2 EXCEPT !.edges =
                [e \in (DOMAIN g2.edges) \cup {key} |->
                   IF e = key
                     THEN [source |-> s, target |-> t, attributes |-> attrs]
                     ELSE g2.edges[e]]]

\* a clearEdges that removes nothing
clearEdges_KeepsEdges(g) == g

\* Graph#clearEdges
clearEdges(g) == [g EXCEPT !.edges = Restrict(g.edges, {})]

\* Graph#setEdgeAttribute
setEdgeAttribute(g, e, name, value) ==
  [g EXCEPT !.edges[e].attributes = Assign(@, [f \in {name} |-> value])]

\* Graph#forEachEdge / #edges in a fixed order (keys are unique, the order of a
\* snapshot does not matter)
RECURSIVE SetToSeq(_)
SetToSeq(S) ==
  IF S = {} THEN <<>>
  ELSE LET x == CHOOSE y \in S : TRUE IN <<x>> \o SetToSeq(S \ {x})

\* SerializedEdgeOf without the attributes of the edge
SerializedEdgeOf_NoAttributes(g, e) ==
  [key |-> e, source |-> g.edges[e].source, target |-> g.edges[e].target,
   attributes |-> EmptyBag]

\* a SerializedEdge of the edge with that key
SerializedEdgeOf(g, e) ==
  [key |-> e, source |-> g.edges[e].source, target |-> g.edges[e].target,
   attributes |-> g.edges[e].attributes]

\* a Set<SerializedEdge> (in insertion order); isSet is FALSE for a value that
\* is not a Set
EdgeSet(items) == [items |-> items, isSet |-> TRUE]

\* JSON.parse(JSON.stringify(v)) of an Array<SerializedNode>: a deep copy
JsonCopyOfArray(nodes) == nodes

\* JSON.parse(JSON.stringify(v)) of a Set: a Set has no enumerable properties,
\* it is serialized as "{}" and parsed back as a plain empty object
JsonCopyOfSet(edges) == [items |-> <<>>, isSet |-> FALSE]

\* ------------------------------------------------- the history log (./History)
UPDATE_APP_MODE == "UPDATE_APP_MODE"
UPDATE_OR_ADD_NODE == "UPDATE_OR_ADD_NODE"
DROP_NODE == "DROP_NODE"
UPDATE_NODE_TYPE == "UPDATE_NODE_TYPE"
REPLACE_EDGES == "REPLACE_EDGES"
UPDATE_OR_ADD_EDGE == "UPDATE_OR_ADD_EDGE"
TOGGLE_EDGE_RENDERING == "TOGGLE_EDGE_RENDERING"
TOGGLE_IMPORTANT_EDGE_RENDERING == "TOGGLE_IMPORTANT_EDGE_RENDERING"
SET_LAYOUT == "SET_LAYOUT"

\* this.history = undefined
NoHistory == [defined |-> FALSE, actions |-> <<>>]
\* new HistoryManager()
NewHistoryManager == [defined |-> TRUE, actions |-> <<>>]

MaxOf(S) == CHOOSE x \in S : \A y \in S : y <= x
MinOf(S) == CHOOSE x \in S : \A y \in S : x <= y

NonRevertedIndexes(actions) == {i \in 1..Len(actions) : ~actions[i].reverted}
RevertedIndexes(actions) == {i \in 1..Len(actions) : actions[i].reverted}

\* HistoryManager#addAction: a new action invalidates the reverted ones (no
\* redo branching) and is appended, not reverted
addAction(actions, oldData, actionType, newData) ==
  Append(SelectSeq(actions, LAMBDA a : ~a.reverted),
         [oldData |-> oldData, actionType |-> actionType,
          newData |-> newData, reverted |-> FALSE])

\* this.history?.addAction(...)
historyAddAction(h, oldData, actionType, newData) ==
  IF h.defined
    THEN [h EXCEPT !.actions = addAction(@, oldData, actionType, newData)]
    ELSE h

\* this.history?.getLatestAction(): the most recent action that is not reverted
hasLatestAction(h) == h.defined /\ NonRevertedIndexes(h.actions) # {}
getLatestAction(h) == h.actions[MaxOf(NonRevertedIndexes(h.actions))]

\* this.history?.markLatestActionAsReverted()
markLatestActionAsReverted(h) ==
  IF hasLatestAction(h)
    THEN [h EXCEPT !.actions[MaxOf(NonRevertedIndexes(h.actions))].reverted = TRUE]
    ELSE h

\* this.history?.getLatestRevertedAction(): the action reverted last, which is
\* the reverted action next to the actions that are not reverted
hasLatestRevertedAction(h) == h.defined /\ RevertedIndexes(h.actions) # {}
getLatestRevertedAction(h) == h.actions[MinOf(RevertedIndexes(h.actions))]

\* this.history?.markLatestRevertedActionAsNotReverted()
markLatestRevertedActionAsNotReverted(h) ==
  IF hasLatestRevertedAction(h)
    THEN [h EXCEPT !.actions[MinOf(RevertedIndexes(h.actions))].reverted = FALSE]
    ELSE h

\* --------------------------------------------------- the methods of WebGraph
\* S is the state of the object; S.ret the value the call returns ("true",
\* "false", "void"), S.thrown whether the call (or a call it made) threw.
Return(S, v) == [S EXCEPT !.ret = v]
Throw(S) == [S EXCEPT !.thrown = TRUE, !.ret = "threw"]

isRenderingActive(S) == S.appState = ACTIVE

\* get appMode
appMode(S) == S.configuration.appMode

\* set appMode
setAppMode(S, mode) ==
  LET oldAppMode == appMode(S)
      S1 == [S EXCEPT !.configuration.appMode = mode]
      S2 == IF S1.isHistoryEnabled
              THEN [S1 EXCEPT !.history =
                      historyAddAction(@, [appMode |-> oldAppMode],
                                       UPDATE_APP_MODE, [appMode |-> mode])]
              ELSE S1
  IN  Return(S2, "void")

\* new WebGLRenderer(graph, container, sigmaSettings); hovered is the node the
\* renderer has reported as entered and not yet as left; node and draggedNode
\* are the variables of that name that the click and drag listeners registered
\* on this renderer share; highlighted are the nodes that highlightNode of the
\* renderer was called for and unhighlightNode was not; cameraEnabled is the
\* state of its camera (Camera#disable, Camera#enable); isContextMenuOpen and
\* contextNode are the variables the context menu listeners share
NewRenderer(sigmaSettings) ==
  [defined |-> TRUE, settings |-> sigmaSettings, hovered |-> Undefined,
   node |-> Undefined, draggedNode |-> Undefined, highlighted |-> {},
   cameraEnabled |-> TRUE, isContextMenuOpen |-> FALSE,
   contextNode |-> Undefined]
\* this.renderer = undefined
NoRenderer ==
  [defined |-> FALSE, settings |-> EmptyBag, hovered |-> Undefined,
   node |-> Undefined, draggedNode |-> Undefined, highlighted |-> {},
   cameraEnabled |-> TRUE, isContextMenuOpen |-> FALSE,
   contextNode |-> Undefined]

\* overwriteRenderSettings -> overwriteNodePrograms: the part that is state
overwriteRenderSettings(S) ==
  [S EXCEPT !.configuration.sigmaSettings.defaultNodeType =
              S.configuration.defaultNodeType]

\* render, once it is known that the rendering is not active
startRendering(S) ==
  LET S1 == overwriteRenderSettings([S EXCEPT !.appState = ACTIVE])
      S2 == [S1 EXCEPT !.renderer = NewRenderer(S1.configuration.sigmaSettings),
                       !.isHistoryEnabled = S1.configuration.enableHistory]
      S3 == IF S2.isHistoryEnabled
              THEN [S2 EXCEPT !.history = NewHistoryManager] ELSE S2
  IN  Return([S3 EXCEPT
                !.isEdgeRenderingDisabled = S3.renderer.settings.hideEdges,
                !.isJustImportantEdgesEnabled =
                   S3.renderer.settings.renderJustImportantEdges,
                !.isNodeBackdropRenderingEnabled =
                   S3.renderer.settings.renderNodeBackdrop],
             "void")

\* render without the check that the rendering is not active yet
render_Unguarded(S) == startRendering(S)

render(S) == IF isRenderingActive(S) THEN Throw(S) ELSE startRendering(S)

\* get camera
camera(S) ==
  IF ~S.renderer.defined \/ ~isRenderingActive(S) THEN Throw(S)
  ELSE Return(S, "camera")

\* one iteration of edges.forEach in mergeEdges; acc = [S, existingEdges]
mergeEdgesStep(acc, edge, record) ==
  LET g == acc.S.graphData
      snapshot == record /\ hasEdge(g, edge.source, edge.target)
  IN  IF acc.S.thrown THEN acc
      ELSE IF snapshot /\ edge.key \notin DOMAIN g.edges
        \* getEdgeAttributes(key) of a key that is not in the graph
        THEN [acc EXCEPT !.S = Throw(@)]
      ELSE IF edge.key \in DOMAIN g.edges
              /\ (g.edges[edge.key].source # edge.source
                    \/ g.edges[edge.key].target # edge.target)
        \* mergeEdgeWithKey of an existing key with other end nodes
        THEN [acc EXCEPT !.S = Throw(@)]
      ELSE [S |-> [acc.S EXCEPT !.graphData =
                     mergeEdgeWithKey(g, edge.key, edge.source, edge.target,
                                      edge.attributes)],
            existingEdges |->
              IF snapshot
                THEN Append(acc.existingEdges,
                            [key |-> edge.key, source |-> edge.source,
                             target |-> edge.target,
                             attributes |-> g.edges[edge.key].attributes])
                ELSE acc.existingEdges]

RECURSIVE mergeEdgesLoop(_, _, _)
mergeEdgesLoop(acc, items, record) ==
  IF items = <<>> THEN acc
  ELSE mergeEdgesLoop(mergeEdgesStep(acc, Head(items), record), Tail(items), record)

mergeEdges(S, edges, addToHistory) ==
  IF edges.isSet /\ Len(edges.items) <= 0 THEN Return(S, "false")
  \* a value without size and forEach: the comparison is false, forEach throws
  ELSE IF ~edges.isSet THEN Throw(S)
  ELSE
    LET record == S.isHistoryEnabled /\ addToHistory
        acc == mergeEdgesLoop([S |-> S, existingEdges |-> <<>>], edges.items, record)
    IN  IF acc.S.thrown THEN acc.S
        ELSE IF record
          THEN Return([acc.S EXCEPT !.history =
                         historyAddAction(@, [edges |-> EdgeSet(acc.existingEdges)],
                                          UPDATE_OR_ADD_EDGE, [edges |-> edges])],
                      "true")
          ELSE Return(acc.S, "true")

\* replaceEdges whose inner merge is recorded too
replaceEdges_LogsInnerMerge(S, edges, addToHistory) ==
  LET g == S.graphData
      S1 == IF S.isHistoryEnabled /\ addToHistory
              THEN [S EXCEPT !.history =
                      historyAddAction(@,
                        [edges |-> EdgeSet([i \in 1..Len(SetToSeq(DOMAIN g.edges)) |->
                                     SerializedEdgeOf(g, SetToSeq(DOMAIN g.edges)[i])])],
                        REPLACE_EDGES, [edges |-> edges])]
              ELSE S
      S2 == mergeEdges([S1 EXCEPT !.graphData = clearEdges(g)], edges, addToHistory)
  IN  IF S2.thrown THEN S2 ELSE Return(S2, "true")

replaceEdges(S, edges, addToHistory) ==
  LET g == S.graphData
      S1 == IF S.isHistoryEnabled /\ addToHistory
              THEN [S EXCEPT !.history =
                      historyAddAction(@,
                        [edges |-> EdgeSet([i \in 1..Len(SetToSeq(DOMAIN g.edges)) |->
                                     SerializedEdgeOf(g, SetToSeq(DOMAIN g.edges)[i])])],
                        REPLACE_EDGES, [edges |-> edges])]
              ELSE S
      S2 == mergeEdges([S1 EXCEPT !.graphData = clearEdges(g)], edges, FALSE)
  IN  IF S2.thrown THEN S2 ELSE Return(S2, "true")

\* WebGLRenderer#toggleEdgeRendering of the renderer, when there is one
rendererToggleEdgeRendering(r, hide) ==
  IF r.defined THEN [r EXCEPT !.settings.hideEdges = hide] ELSE r

\* WebGLRenderer#renderJustImportantEdges of the renderer, when there is one
rendererRenderJustImportantEdges(r, just) ==
  IF r.defined THEN [r EXCEPT !.settings.renderJustImportantEdges = just] ELSE r

\* toggleEdgeRendering that hides the edges when called without argument,
\* instead of flipping the flag
toggleEdgeRendering_NoFlip(S, hideEdges, addToHistory) ==
  LET oldValue == S.isEdgeRenderingDisabled
      newValue == IF IsGiven(hideEdges) THEN hideEdges[1] ELSE TRUE
      S1 == [S EXCEPT !.isEdgeRenderingDisabled = newValue,
                      !.renderer = rendererToggleEdgeRendering(@, newValue)]
  IN  IF S1.isHistoryEnabled /\ addToHistory
        THEN Return([S1 EXCEPT !.history =
                       historyAddAction(@, [toggleEdgeRendering |-> oldValue],
                         TOGGLE_EDGE_RENDERING,
                         IF IsGiven(hideEdges)
                           THEN [toggleEdgeRendering |-> hideEdges[1]]
                           ELSE EmptyBag)],
                    "void")
        ELSE Return(S1, "void")

toggleEdgeRendering(S, hideEdges, addToHistory) ==
  LET oldValue == S.isEdgeRenderingDisabled
      newValue == IF IsGiven(hideEdges) THEN hideEdges[1] ELSE ~oldValue
      S1 == [S EXCEPT !.isEdgeRenderingDisabled = newValue,
                      !.renderer = rendererToggleEdgeRendering(@, newValue)]
  IN  IF S1.isHistoryEnabled /\ addToHistory
        THEN Return([S1 EXCEPT !.history =
                       historyAddAction(@, [toggleEdgeRendering |-> oldValue],
                         TOGGLE_EDGE_RENDERING,
                         \* the argument itself: nothing when it was omitted
                         IF IsGiven(hideEdges)
                           THEN [toggleEdgeRendering |-> hideEdges[1]]
                           ELSE EmptyBag)],
                    "void")
        ELSE Return(S1, "void")

toggleJustImportantEdgeRendering(S, renderJustImportant, addToHistory) ==
  LET oldValue == S.isJustImportantEdgesEnabled
      newValue == IF IsGiven(renderJustImportant)
                    THEN renderJustImportant[1] ELSE ~oldValue
      S1 == [S EXCEPT !.isJustImportantEdgesEnabled = newValue,
                      !.renderer = rendererRenderJustImportantEdges(@, newValue)]
      \* this.toggleEdgeRendering(false): addToHistory is left at its default
      S2 == toggleEdgeRendering(S1, Some(FALSE), TRUE)
  IN  IF S2.isHistoryEnabled /\ addToHistory
        THEN Return([S2 EXCEPT !.history =
                       historyAddAction(@, [toggleEdgeRendering |-> oldValue],
                         TOGGLE_IMPORTANT_EDGE_RENDERING,
                         IF IsGiven(renderJustImportant)
                           THEN [toggleEdgeRendering |-> renderJustImportant[1]]
                           ELSE EmptyBag)],
                    "void")
        ELSE Return(S2, "void")

\* one iteration of nodes.forEach in mergeNodes; acc = [g, existingNodes]
mergeNodesStep(acc, node, record) ==
  [g |-> mergeNode(acc.g, node.key, node.attributes),
   existingNodes |->
     IF record /\ hasNode(acc.g, node.key)
       THEN Append(acc.existingNodes,
                   [key |-> node.key,
                    attributes |-> getNodeAttributes(acc.g, node.key)])
       ELSE acc.existingNodes]

RECURSIVE mergeNodesLoop(_, _, _)
mergeNodesLoop(acc, nodes, record) ==
  IF nodes = <<>> THEN acc
  ELSE mergeNodesLoop(mergeNodesStep(acc, Head(nodes), record), Tail(nodes), record)

\* the replay path of mergeNodes: every edge of a merged node is shown again
unhideEdgesOf(g, nodes) ==
  LET touched == UNION {edgesOf(g, nodes[i].key) : i \in 1..Len(nodes)}
  IN  [g EXCEPT !.edges =
         [e \in DOMAIN g.edges |->
            IF e \in touched
              THEN [g.edges[e] EXCEPT !.attributes = Assign(@, [hidden |-> FALSE])]
              ELSE g.edges[e]]]

mergeNodes(S, nodes, addToHistory) ==
  IF Len(nodes) <= 0 THEN Return(S, "false")
  ELSE
    LET record == S.isHistoryEnabled /\ addToHistory
        acc == mergeNodesLoop([g |-> S.graphData, existingNodes |-> <<>>],
                              nodes, record)
        h == IF record
               THEN historyAddAction(S.history, [nodes |-> acc.existingNodes],
                                     UPDATE_OR_ADD_NODE, [nodes |-> nodes])
               ELSE S.history
        g == IF ~addToHistory THEN unhideEdgesOf(acc.g, nodes) ELSE acc.g
    IN  Return([S EXCEPT !.graphData = g, !.history = h], "true")

hideNodeInfoBoxContainer(S, rightClickNode) ==
  IF ~S.isNodeInfoBoxContainerVisible THEN S
  ELSE IF ~rightClickNode /\ S.hoveredNode # Undefined THEN S
  ELSE IF ~S.configuration.nodeInfoBox THEN S
  ELSE [S EXCEPT !.env.infoBoxClass = "cssHide",
                 !.isNodeInfoBoxContainerVisible = FALSE]

\* an element of the array passed to dropNodes: a key, or a node (SerializedNode)
KeyArg(k) == [key |-> k, attributes |-> EmptyBag, isKey |-> TRUE]
NodeArg(n) == [key |-> n.key, attributes |-> n.attributes, isKey |-> FALSE]
NodeArgs(nodes) == [i \in 1..Len(nodes) |-> NodeArg(nodes[i])]

\* node.toString(): the key itself, and "[object Object]" for a node object
toStringOf(node) == IF node.isKey THEN node.key ELSE "[object Object]"

\* dropNodesStep that leaves the dropped node and its edges in the highlight sets
dropNodesStep_KeepsHighlights(acc, node, record) ==
  LET S == acc.S
      g == S.graphData
      key == node.key
      edges == edgesOf(g, key)
      S2 == hideNodeInfoBoxContainer(S, FALSE)
  IN  IF ~hasNode(g, key) THEN acc
      ELSE [S |-> [S2 EXCEPT !.graphData = dropNode(g, key)],
            edgeSetForHistory |->
              IF record
                THEN acc.edgeSetForHistory \o
                       [i \in 1..Len(SetToSeq(edges)) |->
                          SerializedEdgeOf(g, SetToSeq(edges)[i])]
                ELSE acc.edgeSetForHistory,
            nodeArrayForHistory |->
              IF record
                THEN Append(acc.nodeArrayForHistory,
                            [key |-> toStringOf(node),
                             attributes |-> getNodeAttributes(g, key)])
                ELSE acc.nodeArrayForHistory]

\* one iteration of nodes.forEach in dropNodes;
\* acc = [S, edgeSetForHistory, nodeArrayForHistory]
dropNodesStep(acc, node, record) ==
  LET S == acc.S
      g == S.graphData
      key == node.key
      edges == edgesOf(g, key)
      S1 == [S EXCEPT !.highlightedNodes = @ \ {key},
                      !.highlightedEdges = @ \ edges]
      S2 == hideNodeInfoBoxContainer(S1, FALSE)
  IN  IF ~hasNode(g, key) THEN acc
      ELSE [S |-> [S2 EXCEPT !.graphData = dropNode(g, key)],
            edgeSetForHistory |->
              IF record
                THEN acc.edgeSetForHistory \o
                       [i \in 1..Len(SetToSeq(edges)) |->
                          SerializedEdgeOf(g, SetToSeq(edges)[i])]
                ELSE acc.edgeSetForHistory,
            nodeArrayForHistory |->
              IF record
                THEN Append(acc.nodeArrayForHistory,
                            [key |-> toStringOf(node),
                             attributes |-> getNodeAttributes(g, key)])
                ELSE acc.nodeArrayForHistory]

RECURSIVE dropNodesLoop(_, _, _)
dropNodesLoop(acc, nodes, record) ==
  IF nodes = <<>> THEN acc
  ELSE dropNodesLoop(dropNodesStep(acc, Head(nodes), record), Tail(nodes), record)

\* dropNodes that returns false, and records nothing, when no node was dropped
dropNodes_FalseWhenNoneDropped(S, nodes, addToHistory) ==
  LET record == S.isHistoryEnabled /\ addToHistory
      acc == dropNodesLoop([S |-> S, edgeSetForHistory |-> <<>>,
                            nodeArrayForHistory |-> <<>>], nodes, record)
  IN  IF acc.S.graphData = S.graphData THEN Return(S, "false")
      ELSE IF record
        THEN Return([acc.S EXCEPT !.history =
                       historyAddAction(@,
                         [nodes |-> acc.nodeArrayForHistory,
                          edges |-> EdgeSet(acc.edgeSetForHistory)],
                         DROP_NODE, EmptyBag)],
                    "true")
        ELSE Return(acc.S, "true")

dropNodes(S, nodes, addToHistory) ==
  LET record == S.isHistoryEnabled /\ addToHistory
      acc == dropNodesLoop([S |-> S, edgeSetForHistory |-> <<>>,
                            nodeArrayForHistory |-> <<>>], nodes, record)
  IN  IF record
        THEN Return([acc.S EXCEPT !.history =
                       historyAddAction(@,
                         [nodes |-> acc.nodeArrayForHistory,
                          edges |-> EdgeSet(acc.edgeSetForHistory)],
                         DROP_NODE, EmptyBag)],
                    "true")
        ELSE Return(acc.S, "true")

\* InternalUtils.exportLayoutMapping (../Utils): the x and y of every node
exportLayoutMapping(g) ==
  [n \in DOMAIN g.nodes |->
     [a \in {"x", "y"} \cap DOMAIN g.nodes[n] |-> g.nodes[n][a]]]

\* animateGraph: animateNodes of sigma starts at the positions of the nodes and
\* reaches the mapping after the duration; until then the animation waits in
\* the event loop
animateGraph(S, mapping) ==
  [S EXCEPT !.env.pending = Append(@, [kind |-> "animation", mapping |-> mapping])]

\* setAndApplyLayout with applyLayout; a layout either assigns the positions
\* of its mapping to the nodes and returns undefined (layout.assigns), or
\* returns the mapping
setAndApplyLayout(S, layout, addToHistory) ==
  LET record == S.isHistoryEnabled /\ addToHistory
      oldLayoutMapping == exportLayoutMapping(S.graphData)
      S1 == IF layout.assigns
              THEN [S EXCEPT !.graphData.nodes =
                      [n \in DOMAIN @ |->
                         IF n \in DOMAIN layout.mapping
                           THEN Assign(@[n], layout.mapping[n]) ELSE @[n]]]
              ELSE animateGraph(S, layout.mapping)
  IN  IF record
        THEN Return([S1 EXCEPT !.history =
                       historyAddAction(@, [layoutMapping |-> oldLayoutMapping],
                         SET_LAYOUT,
                         [layoutMapping |-> exportLayoutMapping(S1.graphData)])],
                    "true")
        ELSE Return(S1, "true")

setAndApplyDefaultNodeType(S, nodeType, addToHistory) ==
  IF ~S.renderer.defined THEN Return(S, "false")
  ELSE
    LET oldNodeType == S.configuration.defaultNodeType
        S1 == [S EXCEPT !.configuration.defaultNodeType = nodeType,
                        !.configuration.sigmaSettings.defaultNodeType = nodeType,
                        !.renderer.settings.defaultNodeType = nodeType]
    IN  IF S1.isHistoryEnabled /\ addToHistory
          THEN Return([S1 EXCEPT !.history =
                         historyAddAction(@, [nodeType |-> oldNodeType],
                                          UPDATE_NODE_TYPE, [nodeType |-> nodeType])],
                      "true")
          ELSE Return(S1, "true")

\* colors: <<>> or <<the record of cluster colors>>
toggleNodeBackdropRendering(S, colors, manuallyEnOrDisable) ==
  IF ~S.renderer.defined \/ ~isRenderingActive(S) THEN Throw(S)
  ELSE
    LET S1 == IF IsGiven(colors)
                THEN [S EXCEPT !.renderer.settings.clusterColors = colors[1],
                               !.configuration.sigmaSettings.clusterColors = colors[1]]
                ELSE S
        enabled == IF IsGiven(manuallyEnOrDisable)
                     THEN manuallyEnOrDisable[1]
                     ELSE ~S1.isNodeBackdropRenderingEnabled
    IN  Return([S1 EXCEPT !.renderer.settings.renderNodeBackdrop = enabled,
                          !.configuration.sigmaSettings.renderNodeBackdrop = enabled,
                          !.isNodeBackdropRenderingEnabled = enabled],
               "true")

clearHistory(S) == Return([S EXCEPT !.history = NewHistoryManager], "true")

\* destroy that leaves the history log in place
destroy_KeepsHistory(S) ==
  Return([S EXCEPT !.renderer = NoRenderer,
                   !.appState = INACTIVE,
                   !.highlightedNodes = {},
                   !.highlightedEdges = {},
                   !.hoveredNode = Undefined],
         "void")

destroy(S) ==
  Return([S EXCEPT !.renderer = NoRenderer,
                   !.appState = INACTIVE,
                   !.highlightedNodes = {},
                   !.highlightedEdges = {},
                   !.hoveredNode = Undefined,
                   !.history = NoHistory],
         "void")

\* exportGraph: Graph#export returns the nodes and the edges of the graph as
\* they are when it is called
exportGraph(S, excludeEdges) ==
  LET g == IF excludeEdges THEN clearEdges(S.graphData) ELSE S.graphData
  IN  Return([S EXCEPT !.graphData = g], g)

\* the switch of undo over the type of the latest action: the state after the
\* inverse mutation, with ret = "false" where the case returns false
undoSwitch(S, latestAction) ==
  LET oldData == latestAction.oldData
      newData == latestAction.newData
      type == latestAction.actionType
  IN  CASE type = UPDATE_APP_MODE ->
             IF ~Has(oldData, "appMode") THEN Return(S, "false")
             ELSE Return([S EXCEPT !.configuration.appMode = oldData.appMode], "void")
        [] type = UPDATE_OR_ADD_NODE ->
             IF ~Has(oldData, "nodes") \/ ~Has(newData, "nodes") THEN Return(S, "false")
             ELSE Return(mergeNodes(dropNodes(S, NodeArgs(newData.nodes), FALSE),
                                    JsonCopyOfArray(oldData.nodes), FALSE), "void")
        [] type = DROP_NODE ->
             IF ~Has(oldData, "nodes") \/ ~Has(oldData, "edges") THEN Return(S, "false")
             ELSE LET S1 == mergeNodes(S, oldData.nodes, FALSE)
                      S2 == mergeEdges(S1, oldData.edges, FALSE)
                  IN  IF S2.thrown THEN S2 ELSE Return(S2, "void")
        [] type = UPDATE_NODE_TYPE ->
             IF ~Has(oldData, "nodeType") THEN Return(S, "false")
             ELSE Return(setAndApplyDefaultNodeType(S, oldData.nodeType, FALSE), "void")
        [] type = REPLACE_EDGES ->
             IF ~Has(oldData, "edges") THEN Return(S, "false")
             ELSE LET S1 == replaceEdges(S, oldData.edges, FALSE)
                  IN  IF S1.thrown THEN S1 ELSE Return(S1, "void")
        [] type = UPDATE_OR_ADD_EDGE ->
             IF ~Has(oldData, "edges") THEN Return(S, "false")
             ELSE LET S1 == replaceEdges(S, JsonCopyOfSet(oldData.edges), FALSE)
                  IN  IF S1.thrown THEN S1 ELSE Return(S1, "void")
        [] type = TOGGLE_EDGE_RENDERING ->
             IF ~Has(oldData, "toggleEdgeRendering") THEN Return(S, "false")
             ELSE toggleEdgeRendering(S, Some(oldData.toggleEdgeRendering), FALSE)
        [] type = TOGGLE_IMPORTANT_EDGE_RENDERING ->
             IF ~Has(oldData, "toggleEdgeRendering") THEN Return(S, "false")
             ELSE toggleJustImportantEdgeRendering(
                    S, Some(oldData.toggleEdgeRendering), FALSE)
        [] type = SET_LAYOUT ->
             IF ~Has(oldData, "layoutMapping") THEN Return(S, "false")
             ELSE Return(animateGraph(S, oldData.layoutMapping), "void")
        [] OTHER -> Return(S, "void")

\* undo, once there is a latest action: the switch, then the mark
undoLatestAction(S) ==
  LET S1 == undoSwitch(S, getLatestAction(S.history))
  IN  IF S1.thrown \/ S1.ret = "false" THEN S1
      ELSE Return([S1 EXCEPT !.history = markLatestActionAsReverted(@)], "true")

\* undo without the check that the history is enabled
undo_NoHistoryCheck(S) ==
  IF ~S.renderer.defined \/ ~isRenderingActive(S) THEN Throw(S)
  ELSE IF ~hasLatestAction(S.history) THEN Return(S, "false")
  ELSE undoLatestAction(S)

\* undo without the check that there is a latest action: reading the type of
\* an action that is undefined throws
undo_NoLatestCheck(S) ==
  IF ~S.renderer.defined \/ ~isRenderingActive(S) THEN Throw(S)
  ELSE IF ~S.isHistoryEnabled THEN Throw(S)
  ELSE IF ~hasLatestAction(S.history) THEN Throw(S)
  ELSE undoLatestAction(S)

undo(S) ==
  IF ~S.renderer.defined \/ ~isRenderingActive(S) THEN Throw(S)
  ELSE IF ~S.isHistoryEnabled THEN Throw(S)
  ELSE IF ~hasLatestAction(S.history) THEN Return(S, "false")
  ELSE undoLatestAction(S)

\* the switch of redo over the type of the latest reverted action
redoSwitch(S, latestRevertedAction) ==
  LET oldData == latestRevertedAction.oldData
      newData == latestRevertedAction.newData
      type == latestRevertedAction.actionType
  IN  CASE type = UPDATE_APP_MODE ->
             IF ~Has(newData, "appMode") THEN Return(S, "false")
             ELSE Return([S EXCEPT !.configuration.appMode = newData.appMode], "void")
        [] type = UPDATE_OR_ADD_NODE ->
             IF ~Has(newData, "nodes") THEN Return(S, "false")
             ELSE Return(mergeNodes(S, newData.nodes, FALSE), "void")
        [] type = DROP_NODE ->
             IF ~Has(oldData, "nodes") THEN Return(S, "false")
             ELSE Return(dropNodes(S, NodeArgs(oldData.nodes), FALSE), "void")
        [] type = UPDATE_NODE_TYPE ->
             IF ~Has(newData, "nodeType") THEN Return(S, "false")
             ELSE Return(setAndApplyDefaultNodeType(S, newData.nodeType, FALSE), "void")
        [] type = REPLACE_EDGES ->
             IF ~Has(newData, "edges") THEN Return(S, "false")
             ELSE LET S1 == replaceEdges(S, newData.edges, FALSE)
                  IN  IF S1.thrown THEN S1 ELSE Return(S1, "void")
        [] type = UPDATE_OR_ADD_EDGE ->
             IF ~Has(newData, "edges") THEN Return(S, "false")
             ELSE LET S1 == mergeEdges(S, newData.edges, FALSE)
                  IN  IF S1.thrown THEN S1 ELSE Return(S1, "void")
        [] type = TOGGLE_EDGE_RENDERING ->
             IF ~Has(newData, "toggleEdgeRendering") THEN Return(S, "false")
             ELSE toggleEdgeRendering(S, Some(newData.toggleEdgeRendering), FALSE)
        [] type = TOGGLE_IMPORTANT_EDGE_RENDERING ->
             IF ~Has(newData, "toggleEdgeRendering") THEN Return(S, "false")
             ELSE toggleJustImportantEdgeRendering(
                    S, Some(newData.toggleEdgeRendering), FALSE)
        [] type = SET_LAYOUT ->
             IF ~Has(newData, "layoutMapping") THEN Return(S, "false")
             ELSE Return(animateGraph(S, newData.layoutMapping), "void")
        [] OTHER -> Return(S, "void")

\* redo, once there is a latest reverted action: the switch, then the mark
redoLatestRevertedAction(S) ==
  LET S1 == redoSwitch(S, getLatestRevertedAction(S.history))
  IN  IF S1.thrown \/ S1.ret = "false" THEN S1
      ELSE Return([S1 EXCEPT !.history = markLatestRevertedActionAsNotReverted(@)],
                  "true")

\* redo that re-applies the latest action when no action is reverted
redo_ReappliesLatest(S) ==
  IF ~S.renderer.defined \/ ~isRenderingActive(S) THEN Throw(S)
  ELSE IF ~S.isHistoryEnabled THEN Throw(S)
  ELSE IF ~hasLatestRevertedAction(S.history)
    THEN IF ~hasLatestAction(S.history) THEN Return(S, "false")
         ELSE Return(redoSwitch(S, getLatestAction(S.history)), "true")
  ELSE redoLatestRevertedAction(S)

redo(S) ==
  IF ~S.renderer.defined \/ ~isRenderingActive(S) THEN Throw(S)
  ELSE IF ~S.isHistoryEnabled THEN Throw(S)
  ELSE IF ~hasLatestRevertedAction(S.history) THEN Return(S, "false")
  ELSE redoLatestRevertedAction(S)

\* ------------------------------------------------- sub-graph highlighting
\* Graph#neighbors(node): the nodes that share an edge with the node
neighbors(g, k) ==
  {n \in DOMAIN g.nodes :
     \E e \in DOMAIN g.edges :
        \/ g.edges[e].source = k /\ g.edges[e].target = n
        \/ g.edges[e].source = n /\ g.edges[e].target = k}

\* Graph#edges(source, target): the edges from source to target
edgesFromTo(g, s, t) ==
  {e \in DOMAIN g.edges : g.edges[e].source = s /\ g.edges[e].target = t}

\* edges(node, neighbor) and edges(neighbor, node): the edges that join the
\* two nodes, in one direction only
edgesBetween_OneDirection(g, node, neighbor) == edgesFromTo(g, node, neighbor)

\* edges(node, neighbor) and edges(neighbor, node): the edges that join the
\* two nodes, in either direction
edgesBetween(g, node, neighbor) ==
  edgesFromTo(g, node, neighbor) \cup edgesFromTo(g, neighbor, node)

\* Graph#getNodeAttribute(k, name) === value, Graph#getEdgeAttribute(e, name)
\* === value: a missing attribute is undefined and equals no value
nodeAttributeIs(g, k, name, value) ==
  Has(g.nodes[k], name) /\ g.nodes[k][name] = value

edgeAttributeIs(g, e, name, value) ==
  Has(g.edges[e].attributes, name) /\ g.edges[e].attributes[name] = value

\* Graph#setNodeAttribute
setNodeAttribute(g, k, name, value) ==
  [g EXCEPT !.nodes[k] = Assign(@, [f \in {name} |-> value])]

\* the hidden attribute read as always falsy
isHidden_Never(g, k) == FALSE

\* getNodeAttribute(k, 'hidden') as a condition: of the values the attribute
\* takes (true, false, undefined) only true is truthy
isHidden(g, k) == nodeAttributeIs(g, k, "hidden", TRUE)

\* the inner loop with the reverse edges included whatever the configuration
importantNeighborEdges_BothDirections(S, neighbor, neighborsImportantNeighbor) ==
  LET g == S.graphData
      shown(e) == ~(/\ S.renderer.settings.renderJustImportantEdges = TRUE
                    /\ edgeAttributeIs(g, e, "important", FALSE))
  IN  {e \in edgesBetween(g, neighbor, neighborsImportantNeighbor) : shown(e)}

\* the inner loop of highlightSubgraphOfNode: the edges between the neighbor
\* and its important neighbor that are included
importantNeighborEdges(S, neighbor, neighborsImportantNeighbor) ==
  LET g == S.graphData
      shown(e) == ~(/\ S.renderer.settings.renderJustImportantEdges = TRUE
                    /\ edgeAttributeIs(g, e, "important", FALSE))
      edgesOut == {e \in edgesFromTo(g, neighbor, neighborsImportantNeighbor) : shown(e)}
      edgesIn == IF S.configuration.importantNeighborsBidirectional
                   THEN {e \in edgesFromTo(g, neighborsImportantNeighbor, neighbor) :
                           shown(e)}
                   ELSE {}
  IN  edgesOut \cup edgesIn

\* one iteration of the loop over directNeighbors in highlightSubgraphOfNode
highlightNeighbor(S, node, neighbor) ==
  LET g == S.graphData
      between == edgesBetween(g, node, neighbor)
      important == {e \in between : edgeAttributeIs(g, e, "important", TRUE)}
      isAtLeastOneEdgeVisible ==
        IF S.isJustImportantEdgesEnabled THEN important # {} ELSE TRUE
      S1 == IF S.isJustImportantEdgesEnabled
              THEN [S EXCEPT !.highlightedEdges = @ \cup important,
                             !.highlightedNodes =
                                IF important # {} THEN @ \cup {neighbor} ELSE @]
              ELSE [S EXCEPT !.highlightedNodes = @ \cup {neighbor},
                             !.highlightedEdges = @ \cup between]
      importantNeighborsOfNeighbor ==
        IF isAtLeastOneEdgeVisible /\ S.configuration.includeImportantNeighbors
          THEN {nn \in neighbors(g, neighbor) :
                  /\ nodeAttributeIs(g, nn, "important", TRUE)
                  /\ ~isHidden(g, nn)}
          ELSE {}
  IN  IF isHidden(g, neighbor) THEN S
      ELSE [S1 EXCEPT
              !.highlightedEdges =
                 @ \cup UNION {importantNeighborEdges(S, neighbor, nn) :
                                 nn \in importantNeighborsOfNeighbor},
              !.highlightedNodes =
                 @ \cup {nn \in importantNeighborsOfNeighbor :
                           importantNeighborEdges(S, neighbor, nn) # {}}]

RECURSIVE highlightNeighbors(_, _, _)
highlightNeighbors(S, node, directNeighbors) ==
  IF directNeighbors = <<>> THEN S
  ELSE highlightNeighbors(highlightNeighbor(S, node, Head(directNeighbors)),
                          node, Tail(directNeighbors))

highlightSubgraphOfNode(S, node) ==
  highlightNeighbors(S, node, SetToSeq(neighbors(S.graphData, node)))

\* the enterNode listener
enterNode(S, node) ==
  IF ~S.configuration.highlightSubGraphOnHover THEN Return(S, "void")
  ELSE
    LET S1 == [S EXCEPT !.hoveredNode = node]
    IN  IF ~hasNode(S1.graphData, node) THEN Throw(S1)
        ELSE
          LET S2 == IF /\ ~S1.isEdgeRenderingDisabled
                       /\ ~isHidden(S1.graphData, node)
                      THEN highlightSubgraphOfNode(S1, node)
                      ELSE S1
          IN  Return([S2 EXCEPT !.highlightedNodes = @ \cup {node}], "void")

\* highlightedNodes.forEach / highlightedEdges.forEach of the leaveNode
\* listener: the z attribute is reset key by key, a key that is not in the
\* graph makes the graph throw and ends the listener
RECURSIVE resetZOfNodes(_, _)
resetZOfNodes(S, nodes) ==
  IF nodes = <<>> THEN S
  ELSE IF ~hasNode(S.graphData, Head(nodes)) THEN Throw(S)
  ELSE resetZOfNodes(
         [S EXCEPT !.graphData = setNodeAttribute(@, Head(nodes), "z", 0)],
         Tail(nodes))

RECURSIVE resetZOfEdges(_, _)
resetZOfEdges(S, edges) ==
  IF edges = <<>> THEN S
  ELSE IF Head(edges) \notin DOMAIN S.graphData.edges THEN Throw(S)
  ELSE resetZOfEdges(
         [S EXCEPT !.graphData = setEdgeAttribute(@, Head(edges), "z", 0)],
         Tail(edges))

\* the leaveNode listener
leaveNode(S, node) ==
  IF ~S.configuration.highlightSubGraphOnHover
    THEN Return(hideNodeInfoBoxContainer(S, FALSE), "void")
  ELSE
    LET S1 == [S EXCEPT !.hoveredNode = Undefined]
        S2 == IF hasNode(S1.graphData, node)
                THEN [S1 EXCEPT !.graphData = setNodeAttribute(@, node, "z", 0)]
                ELSE S1
        S3 == resetZOfNodes(S2, SetToSeq(S2.highlightedNodes))
        S4 == IF S3.thrown THEN S3
              ELSE resetZOfEdges(S3, SetToSeq(S3.highlightedEdges))
    IN  IF S4.thrown THEN S4
        ELSE Return(hideNodeInfoBoxContainer(
                      [S4 EXCEPT !.highlightedNodes = {}, !.highlightedEdges = {}],
                      FALSE),
                    "void")

\* ------------------------------------------------------------ highlightNode
\* highlightNode: this.renderer?.highlightNode, then setTimeout; the timer
\* waits in the event loop (destroyed: whether destroy was called since)
highlightNode(S, nodeKey, duration) ==
  Return([S EXCEPT
            !.renderer = IF @.defined
                           THEN [@ EXCEPT !.highlighted = @ \cup {nodeKey}]
                           ELSE @,
            !.env.pending =
               Append(@, [kind |-> "timer", node |-> nodeKey,
                          duration |-> duration, destroyed |-> FALSE])],
         "void")

\* the function passed to setTimeout: this.renderer?.unhighlightNode(nodeKey)
unhighlightLater(S, nodeKey) ==
  Return([S EXCEPT !.renderer =
            IF @.defined THEN [@ EXCEPT !.highlighted = @ \ {nodeKey}] ELSE @],
         "void")

\* ------------------------------------------- the node info box, click and drag
\* generateNodeInfoBox: the callback of the node's category is called and its
\* promise waits in the event loop; hover tells whether context and settings
\* were passed (the call of the hover renderer)
generateNodeInfoBox(S, key, hover) ==
  IF ~Has(getNodeAttributes(S.graphData, key), "category") THEN S
  ELSE [S EXCEPT !.env.pending =
          Append(@, [kind |-> "nodeInfo", node |-> key, hover |-> hover])]

\* the then and the catch of generateNodeInfoBox, for the promise of a task
nodeInfoCallbackSettled(S, task, resolved) ==
  IF resolved
    THEN Return([S EXCEPT !.env.infoBoxClass = "cssShow",
                          !.env.opened = @ + 1,
                          !.isNodeInfoBoxContainerVisible = TRUE], "void")
    ELSE Return([S EXCEPT !.env.infoBoxClass = "cssHide",
                          !.isNodeInfoBoxContainerVisible = FALSE], "void")

\* sigmaSettings.hoverRenderer, called by the renderer for the hovered node
hoverRenderer(S, key) ==
  IF ~hasNode(S.graphData, key) THEN Return(S, "void")
  ELSE IF isHidden(S.graphData, key) THEN Return(S, "void")
  ELSE IF ~S.configuration.nodeInfoBox \/ S.configuration.showNodeInfoBoxOnClick
    THEN Return(S, "void")
  ELSE IF S.isNodeDragged THEN Return(S, "void")
  ELSE Return(generateNodeInfoBox(S, key, TRUE), "void")

\* the downNode listener; button is event.event.original.button
downNode(S, node, button) ==
  LET S1 == [S EXCEPT !.renderer.node = node]
  IN  IF appMode(S1) = STATIC \/ button = 2 THEN Return(S1, "void")
      ELSE Return([S1 EXCEPT !.isNodeDragged = TRUE,
                             !.renderer.draggedNode = node,
                             !.renderer.cameraEnabled = FALSE], "void")

\* the mouseup listener; near says that the pointer is less than delta away
\* from where the last downNode was
mouseup(S, button, near) ==
  LET node == S.renderer.node
      g == S.graphData
      S1 == IF button \in {0, 1} /\ near
              THEN (IF ~hasNode(g, node) THEN Throw(S)
                    ELSE IF ~isHidden(g, node)
                            /\ S.configuration.showNodeInfoBoxOnClick
                            /\ S.configuration.nodeInfoBox
                      THEN generateNodeInfoBox(S, node, FALSE)
                    ELSE S)
              ELSE S
  IN  IF S1.thrown THEN S1
      ELSE IF appMode(S1) = STATIC THEN Return(S1, "void")
      ELSE Return([S1 EXCEPT !.isNodeDragged = FALSE,
                             !.renderer.draggedNode = Undefined,
                             !.renderer.cameraEnabled = TRUE], "void")

\* a mousemove listener that moves the dragged node in every app mode
mousemove_AnyMode(S, pos) ==
  IF ~S.renderer.defined \/ ~S.isNodeDragged
       \/ S.renderer.draggedNode = Undefined
    THEN Return(S, "void")
  ELSE IF ~hasNode(S.graphData, S.renderer.draggedNode) THEN Throw(S)
  ELSE Return([S EXCEPT !.graphData =
                 setNodeAttribute(
                   setNodeAttribute(@, S.renderer.draggedNode, "x", pos.x),
                   S.renderer.draggedNode, "y", pos.y)], "void")

\* the mousemove listener; pos is the position of the pointer in the graph
\* (the renderer's normalizationFunction is set once it has processed the graph)
mousemove(S, pos) ==
  IF ~S.renderer.defined \/ appMode(S) = STATIC \/ ~S.isNodeDragged
       \/ S.renderer.draggedNode = Undefined
    THEN Return(S, "void")
  \* setNodeAttribute of a node that is not in the graph
  ELSE IF ~hasNode(S.graphData, S.renderer.draggedNode) THEN Throw(S)
  ELSE Return([S EXCEPT !.graphData =
                 setNodeAttribute(
                   setNodeAttribute(@, S.renderer.draggedNode, "x", pos.x),
                   S.renderer.draggedNode, "y", pos.y)], "void")

\* ------------------------------------------------------------ the context menu
\* the rightClickNode listener; contextmenu says that event.original.type is
\* 'contextmenu'
rightClickNode(S, node, contextmenu) ==
  IF ~contextmenu THEN Return(S, "void")
  ELSE IF ~hasNode(S.graphData, node) THEN Throw(S)
  ELSE IF isHidden(S.graphData, node) THEN Return(S, "void")
  ELSE
    LET attributes == getNodeAttributes(S.graphData, node)
        S1 == [S EXCEPT !.renderer.contextNode = node]
        S2 == IF S1.renderer.isContextMenuOpen
                THEN [S1 EXCEPT !.env.contextMenuClass = "cssHide",
                                !.renderer.isContextMenuOpen = FALSE]
                ELSE S1
    IN  IF ~Has(attributes, "category") THEN Return(S2, "void")
        ELSE IF \A i \in 1..Len(S2.configuration.contextMenus) :
                   S2.configuration.contextMenus[i] # attributes.category
          THEN Return(S2, "void")
        ELSE
          LET S3 == [S2 EXCEPT !.env.contextMenuClass = "cssShow",
                               !.renderer.isContextMenuOpen = TRUE]
              S4 == hideNodeInfoBoxContainer(S3, TRUE)
          IN  Return([S4 EXCEPT !.env.contextMenuOpened = @ + 1], "void")

\* the click listener of an item of the context menu that is shown
clickContextMenuItem(S) ==
  Return([S EXCEPT !.env.contextMenuClass = "cssHide",
                   !.renderer.isContextMenuOpen = FALSE], "void")

\* the click listener of the container
clickContainer(S) ==
  LET S1 == hideNodeInfoBoxContainer(S, FALSE)
  IN  IF ~S1.renderer.isContextMenuOpen THEN Return(S1, "void")
      ELSE Return([S1 EXCEPT !.env.contextMenuClass = "cssHide",
                             !.renderer.isContextMenuOpen = FALSE,
                             !.env.contextMenuClosed = @ + 1], "void")

\* ------------------------------------------------------------------- state
VARIABLES
  appState, renderer, highlightedNodes, highlightedEdges, hoveredNode,
  isNodeInfoBoxContainerVisible, isNodeDragged, isHistoryEnabled, history,
  isEdgeRenderingDisabled, isJustImportantEdgesEnabled,
  isNodeBackdropRenderingEnabled, configuration, graphData,
  \* what is outside the object: the callbacks that wait in the event loop
  \* (node-info fetches in flight, timers), the class of the info-box
  \* container, the number of nodeInfoBoxOpened events emitted
  env,
  \* what the caller observes: the last call, what it returned, how many calls
  call, ret, calls,
  \* bookkeeping of the run for the round-trip properties
  prev, track

vars == <<appState, renderer, highlightedNodes, highlightedEdges, hoveredNode,
          isNodeInfoBoxContainerVisible, isNodeDragged, isHistoryEnabled, history,
          isEdgeRenderingDisabled, isJustImportantEdgesEnabled,
          isNodeBackdropRenderingEnabled, configuration, graphData,
          env, call, ret, calls, prev, track>>

\* the object as a record, at the start of a call
This ==
  [appState |-> appState, renderer |-> renderer,
   highlightedNodes |-> highlightedNodes, highlightedEdges |-> highlightedEdges,
   hoveredNode |-> hoveredNode,
   isNodeInfoBoxContainerVisible |-> isNodeInfoBoxContainerVisible,
   isNodeDragged |-> isNodeDragged, isHistoryEnabled |-> isHistoryEnabled,
   history |-> history, isEdgeRenderingDisabled |-> isEdgeRenderingDisabled,
   isJustImportantEdgesEnabled |-> isJustImportantEdgesEnabled,
   isNodeBackdropRenderingEnabled |-> isNodeBackdropRenderingEnabled,
   configuration |-> configuration, graphData |-> graphData,
   env |-> env, ret |-> "void", thrown |-> FALSE]

\* the object after the call
Becomes(S) ==
  /\ appState' = S.appState
  /\ renderer' = S.renderer
  /\ highlightedNodes' = S.highlightedNodes
  /\ highlightedEdges' = S.highlightedEdges
  /\ hoveredNode' = S.hoveredNode
  /\ isNodeInfoBoxContainerVisible' = S.isNodeInfoBoxContainerVisible
  /\ isNodeDragged' = S.isNodeDragged
  /\ isHistoryEnabled' = S.isHistoryEnabled
  /\ history' = S.history
  /\ isEdgeRenderingDisabled' = S.isEdgeRenderingDisabled
  /\ isJustImportantEdgesEnabled' = S.isJustImportantEdgesEnabled
  /\ isNodeBackdropRenderingEnabled' = S.isNodeBackdropRenderingEnabled
  /\ configuration' = S.configuration
  /\ graphData' = S.graphData
  /\ env' = S.env
  /\ ret' = S.ret

\* the members of the object (everything but the bookkeeping)
object == <<appState, renderer, highlightedNodes, highlightedEdges, hoveredNode,
            isNodeInfoBoxContainerVisible, isNodeDragged, isHistoryEnabled,
            history, isEdgeRenderingDisabled, isJustImportantEdgesEnabled,
            isNodeBackdropRenderingEnabled, configuration, graphData>>

\* what undo and redo are to restore: the graph and the scalar fields
Observed(S) ==
  [graphData |-> S.graphData,
   isEdgeRenderingDisabled |-> S.isEdgeRenderingDisabled,
   isJustImportantEdgesEnabled |-> S.isJustImportantEdgesEnabled,
   defaultNodeType |-> S.configuration.defaultNodeType,
   appMode |-> S.configuration.appMode]

NoTrack == [muts |-> 0, undos |-> 0, redos |-> 0, mutation |-> "none",
            redoable |-> FALSE, before |-> EmptyBag, after |-> EmptyBag]
NoPrev == [before |-> FALSE, op |-> "other", arg |-> None, afterRevert |-> FALSE]

MutationOps == {"mergeNodes", "dropNodes", "mergeEdges", "replaceEdges",
                "toggleEdgeRendering", "toggleJustImportantEdgeRendering",
                "setAndApplyDefaultNodeType", "setAppMode", "setAndApplyLayout"}

\* the bookkeeping after the call op took the object from S to S2: muts
\* recorded mutations in a row, then undos calls of undo, then redos calls of
\* redo; before/after are the observed state around the last mutation, redoable
\* whether the log held a reverted action when that mutation was recorded
Tracked(op, S, S2) ==
  IF /\ op \in MutationOps
     /\ S.isHistoryEnabled /\ S.history.defined
     /\ ~S2.thrown /\ S2.ret # "false"
    THEN [muts |-> IF track.undos = 0 THEN track.muts + 1 ELSE 1,
          undos |-> 0, redos |-> 0, mutation |-> op,
          redoable |-> hasLatestRevertedAction(S.history),
          before |-> Observed(S), after |-> Observed(S2)]
  ELSE IF op = "undo" /\ track.redos = 0 /\ track.undos < track.muts
    THEN [track EXCEPT !.undos = @ + 1]
  ELSE IF op = "redo" /\ track.undos = track.muts /\ track.redos < track.undos
    THEN [track EXCEPT !.redos = @ + 1]
  ELSE NoTrack

\* one call of a public method, in a run of at most B calls
Call(B, op, arg, S2) ==
  /\ calls < B
  /\ Becomes(S2)
  /\ calls' = calls + 1
  /\ call' = [op |-> op, arg |-> arg,
              \* the edge-rendering flag when toggleEdgeRendering was called
              before |-> IF op = "toggleEdgeRendering"
                           THEN isEdgeRenderingDisabled ELSE FALSE,
              \* a redo right after a mutation that was recorded while the log
              \* held a reverted action
              afterRevert |-> op = "redo" /\ track.muts > 0 /\ track.undos = 0
                                /\ track.redoable]
  /\ prev' = IF call.op = "toggleEdgeRendering" THEN call ELSE NoPrev
  /\ track' = Tracked(op, This, S2)

\* ------------------------------------------------------------------ inputs
\* the graph the constructor is given: two nodes, one hidden edge between them
InitialGraph ==
  [nodes |-> [n \in {"n1", "n2"} |-> [x |-> 1]],
   edges |-> [e \in {"e1"} |->
                [source |-> "n1", target |-> "n2",
                 attributes |-> [hidden |-> TRUE]]]]

\* the node arrays a caller merges: nothing, an update of n1, a new node n3,
\* both, and arrays that name a key twice
N1x2 == [key |-> "n1", attributes |-> [x |-> 2]]
N1 == [key |-> "n1", attributes |-> EmptyBag]
N3 == [key |-> "n3", attributes |-> EmptyBag]
N3x2 == [key |-> "n3", attributes |-> [x |-> 2]]
NodeArrays == {<<>>, <<N1x2>>, <<N3>>, <<N1x2, N1>>, <<N1x2, N3>>, <<N3, N3x2>>}

\* the key arrays a caller drops: nothing, a node, a key that is no node (n3,
\* unless merged before), two nodes
KeyArrays ==
  {[i \in 1..Len(ks) |-> KeyArg(ks[i])] :
     ks \in {<<>>, <<"n1">>, <<"n2">>, <<"n3">>, <<"n1", "n2">>}}

\* the edge sets a caller merges or replaces with: nothing, an update of the
\* edge e1, a new edge e2 (to a node n3), both
E1w2 == [source |-> "n1", target |-> "n2", key |-> "e1", attributes |-> [weight |-> 2]]
E2 == [source |-> "n2", target |-> "n3", key |-> "e2", attributes |-> EmptyBag]
EdgeSets == {EdgeSet(es) : es \in {<<>>, <<E1w2>>, <<E2>>, <<E1w2, E2>>}}

\* a new edge between nodes that an edge already joins
E3 == [source |-> "n1", target |-> "n2", key |-> "e3", attributes |-> EmptyBag]

\* the arguments of toggleNodeBackdropRendering: (colors, manuallyEnOrDisable)
BackdropArguments ==
  {<<None, None>>, <<None, Some(FALSE)>>, <<None, Some(TRUE)>>, <<<<"palette">>, None>>}

\* the configuration the constructor is given, merged into the defaults
Configurations ==
  {[appMode |-> STATIC, defaultNodeType |-> RING, enableHistory |-> h,
    nodeInfoBox |-> TRUE, showNodeInfoBoxOnClick |-> TRUE,
    \* contextMenus.entries: the categories that have a context menu
    contextMenus |-> <<0>>,
    highlightSubGraphOnHover |-> TRUE,
    includeImportantNeighbors |-> FALSE, importantNeighborsBidirectional |-> FALSE,
    sigmaSettings |-> [defaultNodeType |-> RING, hideEdges |-> FALSE,
                       renderJustImportantEdges |-> FALSE, renderNodeBackdrop |-> FALSE,
                       clusterColors |-> "default"]] : h \in BOOLEAN}

\* a graph to hover over: n2 is joined to n1 by an important edge and by an
\* edge without the important attribute, n3 is hidden, n4 is an important node
\* joined to n1 and to n2 by edges that are not important
HoverGraph ==
  [nodes |-> [n \in {"n1", "n2", "n3", "n4"} |->
                IF n = "n3" THEN [hidden |-> TRUE]
                ELSE IF n = "n4" THEN [important |-> TRUE]
                ELSE [x |-> 1]],
   edges |-> [e \in {"e1", "e2", "e3", "e4", "e5"} |->
                CASE e = "e1" -> [source |-> "n1", target |-> "n2",
                                  attributes |-> [important |-> TRUE]]
                  [] e = "e2" -> [source |-> "n2", target |-> "n1",
                                  attributes |-> EmptyBag]
                  [] e = "e3" -> [source |-> "n1", target |-> "n3",
                                  attributes |-> EmptyBag]
                  [] e = "e4" -> [source |-> "n2", target |-> "n4",
                                  attributes |-> [important |-> FALSE]]
                  [] e = "e5" -> [source |-> "n4", target |-> "n1",
                                  attributes |-> [important |-> FALSE]]]]

\* the configurations of the hovered widget: sub-graph highlighting is on,
\* with or without history and the important neighbors of the neighbors
HoverConfigurations ==
  {[c EXCEPT !.includeImportantNeighbors = i,
             !.importantNeighborsBidirectional = i /\ b] :
     c \in Configurations, i \in BOOLEAN, b \in BOOLEAN}

\* the keys dropped while hovering: a node, two nodes and a key that is no node
HoverKeyArrays ==
  {[i \in 1..Len(ks) |-> KeyArg(ks[i])] :
     ks \in {<<"n2">>, <<"n1", "n9", "n2">>}}

\* an edge set that replaces the edges of the hovered graph
E6 == [source |-> "n1", target |-> "n2", key |-> "e6", attributes |-> EmptyBag]

\* ------------------------------------------------------ initial state, actions
\* the page when the widget is constructed: no callback waits, the info-box
\* container has the class its markup gave it
NoCallbacks ==
  [infoBoxClass |-> "initial", pending |-> <<>>, opened |-> 0,
   contextMenuClass |-> "initial", contextMenuOpened |-> 0,
   contextMenuClosed |-> 0]

InitWith(configurations, graph) ==
  /\ appState = INACTIVE
  /\ renderer = NoRenderer
  /\ highlightedNodes = {}
  /\ highlightedEdges = {}
  /\ hoveredNode = Undefined
  /\ isNodeInfoBoxContainerVisible = FALSE
  /\ isNodeDragged = FALSE
  /\ isHistoryEnabled = FALSE
  /\ history = NoHistory
  /\ isEdgeRenderingDisabled = FALSE
  /\ isJustImportantEdgesEnabled = FALSE
  /\ isNodeBackdropRenderingEnabled = FALSE
  /\ configuration \in configurations
  /\ graphData = graph
  /\ env = NoCallbacks
  /\ call = [op |-> "new", arg |-> None, before |-> FALSE, afterRevert |-> FALSE]
  /\ ret = "void"
  /\ calls = 0
  /\ prev = NoPrev
  /\ track = NoTrack

Init == InitWith(Configurations, InitialGraph)

\* One action per public method; B is the number of calls the run may make,
\* the inputs are drawn from the given set.
Render(B) == Call(B, "render", None, render(This))

Destroy(B) == Call(B, "destroy", None, destroy(This))

GetCamera(B) == Call(B, "camera", None, camera(This))

MergeNodes(B, arrays) ==
  \E nodes \in arrays : Call(B, "mergeNodes", nodes, mergeNodes(This, nodes, TRUE))

DropNodes(B, arrays) ==
  \E nodes \in arrays : Call(B, "dropNodes", nodes, dropNodes(This, nodes, TRUE))

MergeEdges(B, sets) ==
  \E edges \in sets : Call(B, "mergeEdges", edges, mergeEdges(This, edges, TRUE))

ReplaceEdges(B, sets) ==
  \E edges \in sets : Call(B, "replaceEdges", edges, replaceEdges(This, edges, TRUE))

ToggleEdgeRendering(B) ==
  \E hideEdges \in OptBool :
    Call(B, "toggleEdgeRendering", hideEdges,
         toggleEdgeRendering(This, hideEdges, TRUE))

ToggleJustImportantEdgeRendering(B) ==
  \E renderJustImportant \in OptBool :
    Call(B, "toggleJustImportantEdgeRendering", renderJustImportant,
         toggleJustImportantEdgeRendering(This, renderJustImportant, TRUE))

SetAndApplyDefaultNodeType(B, types) ==
  \E nodeType \in types :
    Call(B, "setAndApplyDefaultNodeType", nodeType,
         setAndApplyDefaultNodeType(This, nodeType, TRUE))

SetAppMode(B, modes) ==
  \E mode \in modes : Call(B, "setAppMode", mode, setAppMode(This, mode))

ToggleNodeBackdropRendering(B) ==
  \E arguments \in BackdropArguments :
    Call(B, "toggleNodeBackdropRendering", arguments,
         toggleNodeBackdropRendering(This, arguments[1], arguments[2]))

Undo(B) == Call(B, "undo", None, undo(This))

Redo(B) == Call(B, "redo", None, redo(This))

ClearHistory(B) == Call(B, "clearHistory", None, clearHistory(This))

\* the renderer reports that the pointer entered a node of the graph
EnterNode(B) ==
  \E node \in DOMAIN graphData.nodes :
    /\ appState = ACTIVE /\ renderer.defined
    /\ Call(B, "enterNode", node,
            enterNode([This EXCEPT !.renderer.hovered = node], node))

\* the renderer reports that the pointer left the node it had entered
LeaveNode(B) ==
  /\ appState = ACTIVE /\ renderer.defined
  /\ renderer.hovered # Undefined
  /\ Call(B, "leaveNode", renderer.hovered,
          leaveNode([This EXCEPT !.renderer.hovered = Undefined], renderer.hovered))

\* every method, any configuration
Next ==
  \/ Render(MaxCalls)
  \/ Destroy(MaxCalls)
  \/ GetCamera(MaxCalls)
  \/ MergeNodes(MaxCalls, NodeArrays)
  \/ DropNodes(MaxCalls, KeyArrays)
  \/ MergeEdges(MaxCalls, EdgeSets)
  \/ ReplaceEdges(MaxCalls, EdgeSets)
  \/ ToggleEdgeRendering(MaxCalls)
  \/ ToggleJustImportantEdgeRendering(MaxCalls)
  \/ SetAndApplyDefaultNodeType(MaxCalls, {RING, CIRCLE})
  \/ SetAppMode(MaxCalls, {STATIC, DYNAMIC})
  \/ ToggleNodeBackdropRendering(MaxCalls)
  \/ Undo(MaxCalls)
  \/ Redo(MaxCalls)
  \/ ClearHistory(MaxCalls)

Spec == Init /\ [][Next]_vars

\* Longer runs of a widget with the history enabled: the life cycle, undo and
\* redo, and one or two inputs of each recorded mutation.
HistoryInit == Init /\ configuration.enableHistory

HistoryNext ==
  \/ Render(MaxHistoryCalls)
  \/ Destroy(MaxHistoryCalls)
  \/ MergeNodes(MaxHistoryCalls, {<<N1x2>>, <<N3>>})
  \/ DropNodes(MaxHistoryCalls, {<<KeyArg("n1")>>})
  \/ MergeEdges(MaxHistoryCalls, {EdgeSet(<<E2>>)})
  \/ ReplaceEdges(MaxHistoryCalls, {EdgeSet(<<E2>>)})
  \/ ToggleEdgeRendering(MaxHistoryCalls)
  \/ ToggleJustImportantEdgeRendering(MaxHistoryCalls)
  \/ SetAndApplyDefaultNodeType(MaxHistoryCalls, {CIRCLE})
  \/ SetAppMode(MaxHistoryCalls, {DYNAMIC})
  \/ Undo(MaxHistoryCalls)
  \/ Redo(MaxHistoryCalls)
  \/ ClearHistory(MaxHistoryCalls)

HistorySpec == HistoryInit /\ [][HistoryNext]_vars

\* Merging and replacing nodes and edges, dropping nodes that are given as
\* node records, and undoing it.
MergeNext ==
  \/ Render(MaxMergeCalls)
  \/ MergeNodes(MaxMergeCalls, NodeArrays)
  \/ DropNodes(MaxMergeCalls, {NodeArgs(<<N1>>), NodeArgs(<<N1, N3>>)})
  \/ MergeEdges(MaxMergeCalls, EdgeSets \cup {EdgeSet(<<E3>>)})
  \/ ReplaceEdges(MaxMergeCalls, EdgeSets)
  \/ Undo(MaxMergeCalls)
  \/ Redo(MaxMergeCalls)

MergeSpec == Init /\ [][MergeNext]_vars

\* Hovering over the nodes of a rendered graph while the graph and the edge
\* rendering are changed.
HoverInit == InitWith(HoverConfigurations, HoverGraph)

HoverNext ==
  \/ Render(MaxHoverCalls)
  \/ EnterNode(MaxHoverCalls)
  \/ LeaveNode(MaxHoverCalls)
  \/ DropNodes(MaxHoverCalls, HoverKeyArrays)
  \/ ReplaceEdges(MaxHoverCalls, {EdgeSet(<<E6>>)})
  \/ ToggleEdgeRendering(MaxHoverCalls)
  \/ ToggleJustImportantEdgeRendering(MaxHoverCalls)
  \/ Undo(MaxHoverCalls)

HoverSpec == HoverInit /\ [][HoverNext]_vars

\* The life cycle of a hovered widget with the history enabled: rendered,
\* destroyed and rendered again, with a recorded mutation that needs a renderer.
LifeCycleInit == HoverInit /\ configuration.enableHistory

LifeCycleNext ==
  \/ Render(MaxLifeCycleCalls)
  \/ Destroy(MaxLifeCycleCalls)
  \/ EnterNode(MaxLifeCycleCalls)
  \/ SetAndApplyDefaultNodeType(MaxLifeCycleCalls, {CIRCLE})
  \/ Undo(MaxLifeCycleCalls)
  \/ Redo(MaxLifeCycleCalls)

LifeCycleSpec == LifeCycleInit /\ [][LifeCycleNext]_vars

\* The mutations of a scalar field, each with an explicit argument, undone and
\* replayed, with the history enabled.
ScalarNext ==
  \/ Render(MaxScalarCalls)
  \/ \E b \in BOOLEAN :
       Call(MaxScalarCalls, "toggleEdgeRendering", Some(b),
            toggleEdgeRendering(This, Some(b), TRUE))
  \/ \E b \in BOOLEAN :
       Call(MaxScalarCalls, "toggleJustImportantEdgeRendering", Some(b),
            toggleJustImportantEdgeRendering(This, Some(b), TRUE))
  \/ SetAndApplyDefaultNodeType(MaxScalarCalls, {RING, CIRCLE})
  \/ SetAppMode(MaxScalarCalls, {STATIC, DYNAMIC})
  \/ Undo(MaxScalarCalls)
  \/ Redo(MaxScalarCalls)

ScalarSpec == HistoryInit /\ [][ScalarNext]_vars

\* Pointer events on a rendered graph whose node n1 has a category (and so a
\* node info box): hovering, clicking and dragging, while the app mode is
\* switched, nodes are dropped and the widget is destroyed.
PointerGraph ==
  [nodes |-> [n \in {"n1", "n2"} |->
                IF n = "n1" THEN [x |-> 1, y |-> 1, category |-> 0]
                ELSE [x |-> 1, y |-> 1]],
   edges |-> [e \in {"e1"} |->
                [source |-> "n1", target |-> "n2", attributes |-> EmptyBag]]]

PointerInit ==
  InitWith({[c EXCEPT !.appMode = m, !.showNodeInfoBoxOnClick = k] :
              c \in {c \in Configurations : ~c.enableHistory},
              m \in {STATIC, DYNAMIC}, k \in BOOLEAN},
           PointerGraph)

PointerNext ==
  \/ Render(MaxPointerCalls)
  \/ Destroy(MaxPointerCalls)
  \/ SetAppMode(MaxPointerCalls, {STATIC, DYNAMIC})
  \/ EnterNode(MaxPointerCalls)
  \/ LeaveNode(MaxPointerCalls)
  \/ DropNodes(MaxPointerCalls, {<<KeyArg("n1")>>, <<KeyArg("n9")>>})
  \* the renderer draws the hover of the node the pointer is on
  \/ /\ appState = ACTIVE /\ renderer.defined /\ renderer.hovered # Undefined
     /\ Call(MaxPointerCalls, "hoverRenderer", renderer.hovered,
             hoverRenderer(This, renderer.hovered))
  \* a button goes down on a node
  \/ \E node \in DOMAIN graphData.nodes, button \in {0, 2} :
       /\ appState = ACTIVE /\ renderer.defined
       /\ Call(MaxPointerCalls, "downNode", <<node, button>>,
               downNode(This, node, button))
  \* a button goes up, near or far from where the last downNode was
  \/ \E button \in {0, 2}, near \in BOOLEAN :
       /\ appState = ACTIVE /\ renderer.defined
       /\ near => renderer.node # Undefined
       /\ Call(MaxPointerCalls, "mouseup", <<button, near>>,
               mouseup(This, button, near))
  \* the pointer moves
  \/ \E pos \in {[x |-> 5, y |-> 7]} :
       /\ appState = ACTIVE /\ renderer.defined
       /\ Call(MaxPointerCalls, "mousemove", pos, mousemove(This, pos))
  \* the promise of a node info callback is resolved or rejected
  \/ \E i \in 1..Len(env.pending), resolved \in BOOLEAN :
       /\ env.pending[i].kind = "nodeInfo"
       /\ Call(MaxPointerCalls, "nodeInfoCallbackSettled",
               <<env.pending[i].node, resolved>>,
               nodeInfoCallbackSettled(
                 [This EXCEPT !.env.pending =
                    SubSeq(@, 1, i - 1) \o SubSeq(@, i + 1, Len(@))],
                 env.pending[i], resolved))

PointerSpec == PointerInit /\ [][PointerNext]_vars

\* Highlighting nodes for a time while the widget is rendered, destroyed and
\* rendered again.  A timer fires when its time is up: of two timers the one set
\* later with a duration that is not shorter fires later; every timer fires.
TimerFires ==
  \E i \in 1..Len(env.pending) :
    /\ env.pending[i].kind = "timer"
    /\ \A j \in 1..(i - 1) : env.pending[j].duration > env.pending[i].duration
    /\ Becomes(unhighlightLater(
                 [This EXCEPT !.env.pending =
                    SubSeq(@, 1, i - 1) \o SubSeq(@, i + 1, Len(@))],
                 env.pending[i].node))
    /\ call' = [op |-> "timeout", arg |-> env.pending[i], before |-> FALSE,
                afterRevert |-> FALSE]
    /\ UNCHANGED <<calls, prev, track>>

TimerNext ==
  \/ Render(MaxTimerCalls)
  \* destroy; the timers that wait have seen a destroy
  \/ Call(MaxTimerCalls, "destroy", None,
          [destroy(This) EXCEPT !.env.pending =
             [i \in 1..Len(@) |-> [@[i] EXCEPT !.destroyed = TRUE]]])
  \/ \E nodeKey \in {"n1", "n2"}, duration \in {100, 200} :
       Call(MaxTimerCalls, "highlightNode", <<nodeKey, duration>>,
            highlightNode(This, nodeKey, duration))
  \/ TimerFires

TimerSpec == Init /\ [][TimerNext]_vars /\ WF_vars(TimerFires)

\* Layouts applied to a rendered graph with the history enabled, undone and
\* replayed.  An animation ends when its duration is over: the animations have
\* the same duration, so they end in the order they were started, and the last
\* frame of an animation puts the nodes at the positions of its mapping.
AnimationEnds ==
  /\ env.pending # <<>> /\ Head(env.pending).kind = "animation"
  /\ Becomes([This EXCEPT
               !.env.pending = Tail(@),
               !.graphData.nodes =
                  [n \in DOMAIN @ |->
                     IF n \in DOMAIN Head(env.pending).mapping
                       THEN Assign(@[n], Head(env.pending).mapping[n])
                       ELSE @[n]]])
  /\ call' = [op |-> "animationEnds", arg |-> None, before |-> FALSE,
              afterRevert |-> FALSE]
  /\ UNCHANGED <<calls, prev, track>>

LayoutNext ==
  \/ Render(MaxLayoutCalls)
  \* a layout that puts n1 and n2 at new positions, by assigning them or by
  \* returning them
  \/ \E assigns \in BOOLEAN, x \in {3, 4} :
       Call(MaxLayoutCalls, "setAndApplyLayout",
            [assigns |-> assigns,
             mapping |-> [n \in {"n1", "n2"} |-> [x |-> x, y |-> 5]]],
            setAndApplyLayout(
              This,
              [assigns |-> assigns,
               mapping |-> [n \in {"n1", "n2"} |-> [x |-> x, y |-> 5]]],
              TRUE))
  \/ Undo(MaxLayoutCalls)
  \/ Redo(MaxLayoutCalls)
  \/ AnimationEnds

LayoutSpec ==
  /\ InitWith({c \in Configurations : c.enableHistory}, PointerGraph)
  /\ [][LayoutNext]_vars
  /\ WF_vars(AnimationEnds)

\* Hovering over a graph with neighbors of neighbors: n2 and n5 are neighbors
\* of n1, n5 by an edge that is not important; n3 is an important node joined
\* to n2 in both directions, n4 an important hidden node that n2 points to, n6
\* an important node that points to n5.
NeighborhoodGraph ==
  [nodes |-> [n \in {"n1", "n2", "n3", "n4", "n5", "n6"} |->
                CASE n = "n3" -> [important |-> TRUE]
                  [] n = "n4" -> [hidden |-> TRUE, important |-> TRUE]
                  [] n = "n6" -> [important |-> TRUE]
                  [] OTHER -> [x |-> 1]],
   edges |-> [e \in {"e1", "e2", "e3", "e4", "e5", "e6"} |->
                CASE e = "e1" -> [source |-> "n1", target |-> "n2",
                                  attributes |-> [important |-> TRUE]]
                  [] e = "e2" -> [source |-> "n2", target |-> "n3",
                                  attributes |-> EmptyBag]
                  [] e = "e3" -> [source |-> "n3", target |-> "n2",
                                  attributes |-> EmptyBag]
                  [] e = "e4" -> [source |-> "n2", target |-> "n4",
                                  attributes |-> EmptyBag]
                  [] e = "e5" -> [source |-> "n1", target |-> "n5",
                                  attributes |-> [important |-> FALSE]]
                  [] e = "e6" -> [source |-> "n6", target |-> "n5",
                                  attributes |-> EmptyBag]]]

NeighborhoodNext ==
  \/ Render(MaxNeighborhoodCalls)
  \/ EnterNode(MaxNeighborhoodCalls)
  \/ LeaveNode(MaxNeighborhoodCalls)
  \/ ToggleJustImportantEdgeRendering(MaxNeighborhoodCalls)

NeighborhoodSpec ==
  InitWith(HoverConfigurations, NeighborhoodGraph) /\ [][NeighborhoodNext]_vars

\* Exporting the graph of a widget with the history enabled while a node is
\* hovered and edges are replaced.
ExportNext ==
  \/ Render(MaxExportCalls)
  \/ EnterNode(MaxExportCalls)
  \/ LeaveNode(MaxExportCalls)
  \/ ReplaceEdges(MaxExportCalls, {EdgeSet(<<E6>>)})
  \/ \E excludeEdges \in BOOLEAN :
       Call(MaxExportCalls, "exportGraph", excludeEdges,
            exportGraph(This, excludeEdges))

ExportSpec ==
  /\ InitWith({c \in HoverConfigurations : c.enableHistory}, HoverGraph)
  /\ [][ExportNext]_vars

\* Right clicks on the nodes and clicks on the context menu and on the
\* container of a rendered graph whose node n1 has a category with a menu.
ContextMenuNext ==
  \/ Render(MaxContextMenuCalls)
  \/ \E node \in DOMAIN graphData.nodes, contextmenu \in BOOLEAN :
       /\ appState = ACTIVE /\ renderer.defined
       /\ Call(MaxContextMenuCalls, "rightClickNode", <<node, contextmenu>>,
               rightClickNode(This, node, contextmenu))
  \/ /\ appState = ACTIVE /\ renderer.defined
     /\ env.contextMenuClass = "cssShow"
     /\ Call(MaxContextMenuCalls, "clickContextMenuItem", None,
             clickContextMenuItem(This))
  \/ /\ appState = ACTIVE /\ renderer.defined
     /\ Call(MaxContextMenuCalls, "clickContainer", None, clickContainer(This))

ContextMenuSpec == PointerInit /\ [][ContextMenuNext]_vars

\* ---------------------------------------------------------------- properties
\* the last calls were: recorded mutations, then one undo
UndoneOnce(op) ==
  /\ appState = ACTIVE
  /\ call.op = "undo"
  /\ track.mutation = op /\ track.muts >= 1 /\ track.undos = 1 /\ track.redos = 0

\* C1: with rendering active and history enabled, N recorded mutations, then N
\* calls of undo, then N calls of redo leave the graph and the scalar fields as
\* they were right after the N-th mutation.
C1_UndoRedoRoundTrip ==
  (/\ appState = ACTIVE
   /\ track.muts >= 1 /\ track.undos = track.muts /\ track.redos = track.muts)
    => Observed(This) = track.after

\* C2: mergeNodes(nodes) immediately followed by undo() leaves the node keys
\* and every node's attributes as they were before the merge.
C2_MergeNodesUndo ==
  UndoneOnce("mergeNodes") => graphData.nodes = track.before.graphData.nodes

\* C3: dropNodes(keys) immediately followed by undo() restores every dropped
\* node with its attributes and every edge incident to a dropped node with its
\* key, end nodes and attributes, the hidden flag included.
C3_DropNodesUndo ==
  UndoneOnce("dropNodes") => graphData = track.before.graphData

\* a drop of a node with a hidden edge was undone
C3_Witness ==
  /\ UndoneOnce("dropNodes") /\ ret = "true"
  /\ "n1" \notin DOMAIN track.after.graphData.nodes
  /\ "e1" \notin DOMAIN track.after.graphData.edges
  /\ "e1" \in DOMAIN graphData.edges
  /\ graphData.edges["e1"].attributes = [hidden |-> TRUE]
  /\ graphData.nodes["n1"] = [x |-> 1]

\* C4: undo() and redo() never append an action to the history log: the number
\* of logged actions is the same before and after the call.
C4_ReplayNeverLogs ==
  [][call'.op \in {"undo", "redo"}
       => Len(history'.actions) = Len(history.actions)]_vars

\* C5: render() while ACTIVE throws and leaves the whole state unchanged;
\* render() while INACTIVE succeeds and leaves the state ACTIVE.
C5_Render ==
  [][call'.op = "render"
       => IF appState = ACTIVE
            THEN ret' = "threw" /\ object' = object
            ELSE ret' # "threw" /\ appState' = ACTIVE]_vars

\* render threw on an active widget with a non-empty history log
C5_Witness ==
  /\ call.op = "render" /\ ret = "threw" /\ appState = ACTIVE
  /\ history.defined /\ Len(history.actions) > 0

\* C6: while INACTIVE, camera, toggleNodeBackdropRendering, undo and redo throw;
\* while ACTIVE with history disabled, undo and redo throw; the failing call
\* leaves the graph, the flags, the configuration and the history unchanged.
C6_PreconditionErrors ==
  [][/\ (/\ call'.op \in {"camera", "toggleNodeBackdropRendering", "undo", "redo"}
         /\ appState = INACTIVE)
          => (ret' = "threw" /\ object' = object)
     /\ (/\ call'.op \in {"undo", "redo"}
         /\ appState = ACTIVE /\ ~isHistoryEnabled)
          => (ret' = "threw" /\ object' = object)]_vars

\* undo threw on an active widget without history, after the graph was changed
C6_Witness ==
  /\ call.op = "undo" /\ ret = "threw"
  /\ appState = ACTIVE /\ ~isHistoryEnabled
  /\ graphData # InitialGraph

\* the reverted actions are the last actions of the log
RevertedIsSuffix(actions) ==
  \A i, j \in 1..Len(actions) : (i < j /\ actions[i].reverted) => actions[j].reverted

\* C7: the reverted actions form a suffix of the log, undo() only marks the
\* last action that is not reverted, redo() only un-marks the reverted
\* action next to the actions that are not reverted.
C7_RevertIsLifo ==
  [][/\ RevertedIsSuffix(history'.actions)
     /\ call'.op = "undo"
          => history' \in {history, markLatestActionAsReverted(history)}
     /\ call'.op = "redo"
          => history' \in {history, markLatestRevertedActionAsNotReverted(history)}]_vars

C10_ToggleEdgeRendering ==
  call.op = "toggleEdgeRendering" =>
    /\ IF IsGiven(call.arg)
         THEN isEdgeRenderingDisabled = call.arg[1]
         ELSE isEdgeRenderingDisabled = ~call.before
    /\ (~IsGiven(call.arg) /\ prev.op = "toggleEdgeRendering" /\ ~IsGiven(prev.arg))
         => isEdgeRenderingDisabled = prev.before

\* two calls of toggleEdgeRendering() in a row
C10_Witness ==
  /\ call.op = "toggleEdgeRendering" /\ ~IsGiven(call.arg)
  /\ prev.op = "toggleEdgeRendering" /\ ~IsGiven(prev.arg)

\* the call appended exactly one action, of the given type, to the log (the
\* reverted actions, which a new action invalidates, apart)
AppendsOne(before, after, actionType) ==
  LET kept == SelectSeq(before, LAMBDA a : ~a.reverted)
  IN  /\ Len(after) = Len(kept) + 1
      /\ SubSeq(after, 1, Len(kept)) = kept
      /\ after[Len(after)].actionType = actionType

\* C11: one call of toggleJustImportantEdgeRendering with history enabled
\* leaves the edge rendering switched on and appends exactly one action, of
\* type TOGGLE_IMPORTANT_EDGE_RENDERING, to the log.
C11_OneActionPerToggle ==
  [][(/\ call'.op = "toggleJustImportantEdgeRendering"
      /\ isHistoryEnabled /\ history.defined)
       => /\ isEdgeRenderingDisabled' = FALSE
          /\ AppendsOne(history.actions, history'.actions,
                        TOGGLE_IMPORTANT_EDGE_RENDERING)]_vars

\* the non-hidden nodes that an edge joins to the node a, a apart
VisibleNeighbors(g, a) ==
  {b \in DOMAIN g.nodes \ {a} :
     /\ ~(Has(g.nodes[b], "hidden") /\ g.nodes[b].hidden = TRUE)
     /\ \E e \in DOMAIN g.edges :
           {g.edges[e].source, g.edges[e].target} = {a, b}}

\* the edges that join a and b, in either direction
Joining(g, a, b) ==
  {e \in DOMAIN g.edges : {g.edges[e].source, g.edges[e].target} = {a, b}}

\* the edges that join a and b and carry important = true
ImportantJoining(g, a, b) ==
  {e \in Joining(g, a, b) :
     Has(g.edges[e].attributes, "important") /\ g.edges[e].attributes.important = TRUE}

\* the pointer enters a non-hidden node of a widget that highlights sub-graphs,
\* renders its edges and does not include the neighbors of the neighbors
EntersVisibleNode ==
  /\ call'.op = "enterNode"
  /\ configuration.highlightSubGraphOnHover
  /\ ~configuration.includeImportantNeighbors
  /\ ~isEdgeRenderingDisabled
  /\ ~isHidden(graphData, call'.arg)

\* C12: with the important-only mode off and empty highlight sets, hover-enter
\* on a non-hidden node A leaves highlightedNodes = {A} and the non-hidden
\* neighbors of A, highlightedEdges = the edges between A and such a neighbor,
\* in either direction.
C12_HoverHighlightsNeighbors ==
  [][(/\ EntersVisibleNode
      /\ ~isJustImportantEdgesEnabled
      /\ highlightedNodes = {} /\ highlightedEdges = {})
       => /\ highlightedNodes' =
               {call'.arg} \cup VisibleNeighbors(graphData, call'.arg)
          /\ highlightedEdges' =
               UNION {Joining(graphData, call'.arg, b) :
                        b \in VisibleNeighbors(graphData, call'.arg)}]_vars

\* n1 was entered first thing after render: n2 and n4 and the edges to them in
\* both directions are highlighted, the hidden n3 and its edge are not
C12_Witness ==
  /\ call.op = "enterNode" /\ call.arg = "n1" /\ calls = 2
  /\ ~isJustImportantEdgesEnabled /\ ~configuration.includeImportantNeighbors
  /\ highlightedNodes = {"n1", "n2", "n4"}
  /\ highlightedEdges = {"e1", "e2", "e5"}

\* C13: with the important-only mode on (edges rendered, no neighbors of
\* neighbors), after hover-enter on a non-hidden node A a non-hidden neighbor B
\* is highlighted iff an edge between A and B has important = true, and the
\* highlighted edges between A and B are those with important = true.
C13_ImportantOnlyHighlight ==
  [][(EntersVisibleNode /\ isJustImportantEdgesEnabled)
       => \A b \in VisibleNeighbors(graphData, call'.arg) :
             /\ b \in highlightedNodes' <=>
                  ImportantJoining(graphData, call'.arg, b) # {}
             /\ highlightedEdges' \cap Joining(graphData, call'.arg, b) =
                  ImportantJoining(graphData, call'.arg, b)]_vars

\* C14: after every hover-leave both highlight sets are empty, the hovered node
\* is unset, and the z attribute of the left node (if it is in the graph) and of
\* every node and edge that was highlighted is 0.
C14_LeaveClearsHighlight ==
  [][call'.op = "leaveNode" /\ configuration.highlightSubGraphOnHover
       => /\ highlightedNodes' = {} /\ highlightedEdges' = {}
          /\ hoveredNode' = Undefined
          /\ \A n \in (highlightedNodes \cup {call'.arg}) \cap DOMAIN graphData'.nodes :
                Has(graphData'.nodes[n], "z") /\ graphData'.nodes[n].z = 0
          /\ \A e \in highlightedEdges \cap DOMAIN graphData'.edges :
                /\ Has(graphData'.edges[e].attributes, "z")
                /\ graphData'.edges[e].attributes.z = 0]_vars

\* C15: the highlight sets are rebuilt on every hover-enter: after
\* hover-enter(n) they hold the sub-graph of n, as computed from empty sets,
\* whatever they held before.
C15_EnterRebuildsHighlight ==
  [][call'.op = "enterNode" /\ configuration.highlightSubGraphOnHover
       => LET fresh == enterNode([This EXCEPT !.highlightedNodes = {},
                                              !.highlightedEdges = {}],
                                 call'.arg)
          IN  /\ highlightedNodes' = fresh.highlightedNodes
              /\ highlightedEdges' = fresh.highlightedEdges]_vars

\* the keys of the array passed to dropNodes that are nodes of the graph
DroppedKeys(g, nodes) ==
  {nodes[i].key : i \in 1..Len(nodes)} \cap DOMAIN g.nodes

\* the edges of the graph incident to one of the keys
IncidentEdges(g, K) ==
  {e \in DOMAIN g.edges : g.edges[e].source \in K \/ g.edges[e].target \in K}

\* C16: after dropNodes(K) no key of K is a node, no edge incident to a node of
\* K remains, the highlight sets hold no dropped node and no removed edge, keys
\* that are no nodes are skipped without error, every other node and edge is
\* unchanged.
C16_DropNodesFrame ==
  [][call'.op = "dropNodes"
       => LET K == DroppedKeys(graphData, call'.arg)
              removed == IncidentEdges(graphData, K)
          IN  /\ ret' = "true"
              /\ DOMAIN graphData'.nodes = (DOMAIN graphData.nodes) \ K
              /\ \A n \in DOMAIN graphData'.nodes :
                    graphData'.nodes[n] = graphData.nodes[n]
              /\ DOMAIN graphData'.edges = (DOMAIN graphData.edges) \ removed
              /\ \A e \in DOMAIN graphData'.edges :
                    graphData'.edges[e] = graphData.edges[e]
              /\ highlightedNodes' = highlightedNodes \ K
              /\ highlightedEdges' = highlightedEdges \ removed]_vars

\* n1, n2 and a key that is no node were dropped while the sub-graph of n1 was
\* highlighted: of the highlight sets only n4 is left
C16_Witness ==
  /\ call.op = "dropNodes" /\ Len(call.arg) = 3 /\ ret = "true"
  /\ DOMAIN graphData.nodes = {"n3", "n4"}
  /\ DOMAIN graphData.edges = {}
  /\ highlightedNodes = {"n4"} /\ highlightedEdges = {}

\* C17: every dropNodes call returns true, and with history enabled it appends
\* exactly one DROP_NODE action that holds all the nodes and all the incident
\* edges the call removed.
C17_DropNodesOneAction ==
  [][call'.op = "dropNodes"
       => /\ ret' = "true"
          /\ (isHistoryEnabled /\ history.defined)
               => LET K == DroppedKeys(graphData, call'.arg)
                      removed == IncidentEdges(graphData, K)
                      oldData == history'.actions[Len(history'.actions)].oldData
                  IN  /\ AppendsOne(history.actions, history'.actions, DROP_NODE)
                      /\ Len(oldData.nodes) = Cardinality(K)
                      /\ {oldData.nodes[i] : i \in 1..Len(oldData.nodes)} =
                           {[key |-> k, attributes |-> graphData.nodes[k]] : k \in K}
                      /\ Len(oldData.edges.items) = Cardinality(removed)
                      /\ {oldData.edges.items[i] : i \in 1..Len(oldData.edges.items)} =
                           {[key |-> e, source |-> graphData.edges[e].source,
                             target |-> graphData.edges[e].target,
                             attributes |-> graphData.edges[e].attributes] :
                              e \in removed}]_vars

\* two nodes and the edge between them were dropped by one call and are held
\* by the one DROP_NODE action of the log
C17_Witness ==
  /\ call.op = "dropNodes" /\ Len(call.arg) = 2 /\ ret = "true"
  /\ history.defined /\ Len(history.actions) = 1
  /\ history.actions[1].actionType = DROP_NODE
  /\ Len(history.actions[1].oldData.nodes) = 2
  /\ Len(history.actions[1].oldData.edges.items) = 1
  /\ DOMAIN graphData.nodes = {}

\* C18: mergeNodes of an empty array and mergeEdges of an empty set return
\* false and change nothing; with an input that is not empty they return true.
C18_MergeOfNothing ==
  [][/\ call'.op = "mergeNodes"
          => IF Len(call'.arg) = 0
               THEN ret' = "false" /\ object' = object
               ELSE ret' = "true"
     /\ call'.op = "mergeEdges"
          => IF Len(call'.arg.items) = 0
               THEN ret' = "false" /\ object' = object
               ELSE ret' = "true"]_vars

\* the edges of the graph are the edges of the set E
EdgesAre(g, E) ==
  /\ DOMAIN g.edges = {E.items[i].key : i \in 1..Len(E.items)}
  /\ \A i \in 1..Len(E.items) :
        g.edges[E.items[i].key] =
          [source |-> E.items[i].source, target |-> E.items[i].target,
           attributes |-> E.items[i].attributes]

\* replaceEdges appended one REPLACE_EDGES action with oldData = the edges
\* before the call and newData = E, when the history is enabled
ReplaceIsLoggedOnce ==
  (isHistoryEnabled /\ history.defined)
    => LET a == history'.actions[Len(history'.actions)]
       IN  /\ AppendsOne(history.actions, history'.actions, REPLACE_EDGES)
           /\ a.newData.edges = call'.arg
           /\ Len(a.oldData.edges.items) = Cardinality(DOMAIN graphData.edges)
           /\ {a.oldData.edges.items[i] : i \in 1..Len(a.oldData.edges.items)} =
                {[key |-> e, source |-> graphData.edges[e].source,
                  target |-> graphData.edges[e].target,
                  attributes |-> graphData.edges[e].attributes] :
                   e \in DOMAIN graphData.edges}

\* C19, as stated: after replaceEdges(E) the edges of the graph are exactly E,
\* the nodes are untouched, and with history enabled exactly one action, of
\* type REPLACE_EDGES with oldData = the edges before and newData = E, is
\* appended.
C19_ReplaceEdges_AsStated ==
  [][call'.op = "replaceEdges"
       => /\ EdgesAre(graphData', call'.arg)
          /\ graphData'.nodes = graphData.nodes
          /\ ReplaceIsLoggedOnce]_vars

\* the end nodes of the edges of E
EndNodes(E) ==
  UNION {{E.items[i].source, E.items[i].target} : i \in 1..Len(E.items)}

\* C19, amended: after replaceEdges(E) the edges of the graph are exactly E,
\* the nodes that existed are untouched and the end nodes of E that were
\* missing are added, and with history enabled exactly one action, of type
\* REPLACE_EDGES with oldData = the edges before and newData = E, is appended.
C19_ReplaceEdges ==
  [][call'.op = "replaceEdges"
       => /\ EdgesAre(graphData', call'.arg)
          /\ DOMAIN graphData'.nodes =
               (DOMAIN graphData.nodes) \cup EndNodes(call'.arg)
          /\ \A n \in DOMAIN graphData.nodes :
                graphData'.nodes[n] = graphData.nodes[n]
          /\ ReplaceIsLoggedOnce]_vars

\* the edge e1 was replaced by e2, whose end node n3 was missing, and the one
\* action of the log holds e1
C19_Witness ==
  /\ call.op = "replaceEdges" /\ ret = "true"
  /\ DOMAIN graphData.edges = {"e2"}
  /\ DOMAIN graphData.nodes = {"n1", "n2", "n3"}
  /\ history.defined /\ Len(history.actions) = 1
  /\ history.actions[1].actionType = REPLACE_EDGES
  /\ Len(history.actions[1].oldData.edges.items) = 1

\* C20: with history enabled, mergeEdges(E) (E not empty) immediately followed
\* by undo() completes without error and leaves the edges of the graph, keys,
\* end nodes and attributes, as they were before the merge.
C20_MergeEdgesUndo ==
  UndoneOnce("mergeEdges")
    => ret = "true" /\ graphData.edges = track.before.graphData.edges

\* C21: with history enabled, replaceEdges(E) immediately followed by undo()
\* leaves the edges of the graph (keys, end nodes, attributes) as they were
\* before the replace, and a redo() right after that undo makes them exactly E
\* again (E is the newData of the action the redo replays).
C21_ReplaceEdgesUndoRedo ==
  /\ [](UndoneOnce("replaceEdges")
          => graphData.edges = track.before.graphData.edges)
  /\ [][(UndoneOnce("replaceEdges") /\ call'.op = "redo")
          => /\ ret' = "true"
             /\ EdgesAre(graphData', getLatestAction(history').newData.edges)
             /\ graphData'.edges = track.after.graphData.edges]_vars

\* the edge e1 was replaced by e2, the undo brought e1 back and the redo e2
C21_Witness ==
  /\ call.op = "redo" /\ ret = "true"
  /\ track.mutation = "replaceEdges" /\ track.undos = 1 /\ track.redos = 1
  /\ DOMAIN track.before.graphData.edges = {"e1"}
  /\ DOMAIN graphData.edges = {"e2"}

\* C22: destroy() leaves the state INACTIVE, both highlight sets empty, the
\* hovered node unset and the history discarded; a render() with history
\* enabled starts with an empty log, whatever was recorded before, so that
\* undo() and redo() right after it return false.
C22_DestroyDiscardsHistory ==
  /\ [][call'.op = "destroy"
          => /\ appState' = INACTIVE
             /\ highlightedNodes' = {} /\ highlightedEdges' = {}
             /\ hoveredNode' = Undefined
             /\ history' = NoHistory]_vars
  /\ [][(call'.op = "render" /\ ret' = "void" /\ configuration.enableHistory)
          => isHistoryEnabled' /\ history' = NewHistoryManager]_vars
  /\ [][(call.op = "render" /\ ret = "void" /\ configuration.enableHistory
           /\ call'.op \in {"undo", "redo"})
          => ret' = "false"]_vars

\* the default node type was changed, which is recorded and needs a renderer;
\* the widget was destroyed and rendered again, and undo returned false
C22_Witness ==
  /\ call.op = "undo" /\ ret = "false"
  /\ appState = ACTIVE
  /\ configuration.defaultNodeType = CIRCLE
  /\ history = NewHistoryManager

\* the field of the observed state that a scalar mutation sets
FieldOf(op) ==
  CASE op = "toggleEdgeRendering" -> "isEdgeRenderingDisabled"
    [] op = "toggleJustImportantEdgeRendering" -> "isJustImportantEdgesEnabled"
    [] op = "setAndApplyDefaultNodeType" -> "defaultNodeType"
    [] op = "setAppMode" -> "appMode"

ScalarOps == {"toggleEdgeRendering", "toggleJustImportantEdgeRendering",
              "setAndApplyDefaultNodeType", "setAppMode"}

\* C23: for each recorded scalar mutation (toggleEdgeRendering(b),
\* toggleJustImportantEdgeRendering(b), setAndApplyDefaultNodeType(t),
\* appMode = m) an immediately following undo() sets the field of the mutation
\* back to the value it had before the mutation, and a redo() right after that
\* undo sets it to the value the mutation gave it.
C23_ScalarUndoRedo ==
  /\ [](\A op \in ScalarOps :
          UndoneOnce(op)
            => Observed(This)[FieldOf(op)] = track.before[FieldOf(op)])
  /\ [][\A op \in ScalarOps :
          (UndoneOnce(op) /\ call'.op = "redo")
            => Observed(This)'[FieldOf(op)] = track.after[FieldOf(op)]]_vars

\* the x and y of every node
Positions(g) ==
  [n \in DOMAIN g.nodes |->
     [a \in {"x", "y"} \cap DOMAIN g.nodes[n] |-> g.nodes[n][a]]]

\* C24: while the app mode is STATIC no pointer event (downNode, mousemove,
\* mouseup) changes the x or y of a node, also when the mode was switched to
\* STATIC in the middle of a drag; while it is DYNAMIC, a downNode with a
\* button other than the right one followed by a mousemove puts the node at
\* the position of the pointer.
C24_DragOnlyWhenDynamic ==
  /\ [][(appMode(This) = STATIC
           /\ call'.op \in {"downNode", "mousemove", "mouseup"})
          => Positions(graphData') = Positions(graphData)]_vars
  /\ [][(appMode(This) = DYNAMIC
           /\ call.op = "downNode" /\ call.arg[2] # 2
           /\ call'.op = "mousemove")
          => Positions(graphData')[call.arg[1]] = call'.arg]_vars

\* the pointer moved after the mode was switched to STATIC during a drag, and
\* the dragged node stayed where it was
C24_Witness ==
  /\ call.op = "mousemove"
  /\ appMode(This) = STATIC
  /\ isNodeDragged /\ renderer.draggedNode = "n1"
  /\ Positions(graphData)["n1"] = [x |-> 1, y |-> 1]

\* the timers of highlightNode that wait
Timers == SelectSeq(env.pending, LAMBDA t : t.kind = "timer")

\* C25: each highlightNode(k, d) highlights k and sets exactly one timer for
\* the un-highlight of k, leaving the timers set before as they are; every
\* timer fires, once, so that in the end as many un-highlights have fired as
\* highlightNode was called; a timer that fires after destroy() leaves every
\* renderer as it is.
C25_HighlightTimers ==
  /\ [][call'.op = "highlightNode"
          => /\ renderer.defined => call'.arg[1] \in renderer'.highlighted
             /\ Len(env'.pending) = Len(env.pending) + 1
             /\ SubSeq(env'.pending, 1, Len(env.pending)) = env.pending
             /\ env'.pending[Len(env'.pending)].node = call'.arg[1]]_vars
  /\ [][call'.op = "timeout" => Len(Timers') = Len(Timers) - 1]_vars
  /\ <>[](Len(Timers) = 0)
  /\ [][(call'.op = "timeout" /\ call'.arg.destroyed)
          => renderer' = renderer]_vars

\* C26: a node-info fetch that was started before destroy() and is resolved or
\* rejected after it (here: while the widget is still INACTIVE, so that the
\* fetch can only have been started before the destroy) leaves the visibility
\* flag of the info box and the info-box container as they are and emits no
\* nodeInfoBoxOpened event.
C26_FetchAfterDestroy ==
  [][(call'.op = "nodeInfoCallbackSettled" /\ appState = INACTIVE)
       => /\ isNodeInfoBoxContainerVisible' = isNodeInfoBoxContainerVisible
          /\ env'.infoBoxClass = env.infoBoxClass
          /\ env'.opened = env.opened]_vars

\* C27: when dropNodes is called with node records and the history is enabled,
\* the node snapshots of the DROP_NODE action carry the keys of the dropped
\* nodes, an undo() right after the call restores each node under its key,
\* and a redo() right after that undo drops exactly those nodes again.
C27_DropNodeRecords ==
  /\ [][(call'.op = "dropNodes" /\ track'.mutation = "dropNodes"
           /\ \A i \in 1..Len(call'.arg) : ~call'.arg[i].isKey)
          => LET nodes == getLatestAction(history').oldData.nodes
             IN  {nodes[i].key : i \in 1..Len(nodes)} =
                   DroppedKeys(graphData, call'.arg)]_vars
  /\ [](UndoneOnce("dropNodes")
          => graphData.nodes = track.before.graphData.nodes)
  /\ [][(UndoneOnce("dropNodes") /\ call'.op = "redo")
          => graphData'.nodes = track.after.graphData.nodes]_vars

\* C28: after a dropNodes call that removes at least one node of the graph the
\* node info box is not visible, whether or not a node is hovered.
C28_DropHidesInfoBox ==
  [][(call'.op = "dropNodes" /\ DroppedKeys(graphData, call'.arg) # {})
       => ~isNodeInfoBoxContainerVisible']_vars

\* C29: setAndApplyLayout with history enabled logs a SET_LAYOUT action whose
\* oldData mapping is the positions of the nodes before the call and whose
\* newData mapping is the positions the layout produces, also when the layout
\* returns a mapping that is animated toward; and undo() followed by redo()
\* ends, once the animations are over, with the nodes at the positions of
\* that newData mapping.
C29_LayoutUndoRedo ==
  /\ [][(call'.op = "setAndApplyLayout" /\ track'.mutation = "setAndApplyLayout"
           /\ track'.undos = 0)
          => LET a == getLatestAction(history')
             IN  /\ a.actionType = SET_LAYOUT
                 /\ a.oldData.layoutMapping = Positions(graphData)
                 /\ a.newData.layoutMapping = call'.arg.mapping]_vars
  /\ []((/\ track.mutation = "setAndApplyLayout"
         /\ track.undos = 1 /\ track.redos = 1
         /\ env.pending = <<>>)
          => Positions(graphData) =
               getLatestAction(history).newData.layoutMapping)

\* the direct neighbors of a that hover-enter on a includes: the non-hidden
\* ones, in the important-only mode those joined to a by an important edge
IncludedNeighbors(g, a, justImportant) ==
  {b \in VisibleNeighbors(g, a) : justImportant => ImportantJoining(g, a, b) # {}}

\* the node has important = true and is not hidden
ImportantVisible(g, c) ==
  /\ Has(g.nodes[c], "important") /\ g.nodes[c].important = TRUE
  /\ ~(Has(g.nodes[c], "hidden") /\ g.nodes[c].hidden = TRUE)

\* C30: with the neighbors of neighbors included, hover-enter on a non-hidden
\* node A adds a node C that is neither A nor an included direct neighbor only
\* if C is important, not hidden and joined to an included direct neighbor B by
\* a highlighted edge, and it adds every such C for which it added an edge
\* between B and C; an edge from C to B is added only when both directions are
\* included (or when it is the forward edge from an included neighbor C to its
\* important neighbor B); no edge between two nodes that are not included
\* direct neighbors is added, so nothing is reached through such a neighbor.
C30_SecondOrderHighlight ==
  [][(/\ call'.op = "enterNode"
      /\ configuration.highlightSubGraphOnHover
      /\ configuration.includeImportantNeighbors
      /\ ~isEdgeRenderingDisabled
      /\ ~isHidden(graphData, call'.arg))
       => LET g == graphData
              a == call'.arg
              inc == IncludedNeighbors(g, a, isJustImportantEdgesEnabled)
              second == DOMAIN g.nodes \ (inc \cup {a})
              addedNodes == highlightedNodes' \ highlightedNodes
              addedEdges == highlightedEdges' \ highlightedEdges
          IN  /\ \A c \in second :
                   /\ c \in addedNodes
                        => /\ ImportantVisible(g, c)
                           /\ \E b \in inc :
                                 highlightedEdges' \cap Joining(g, b, c) # {}
                   /\ (/\ ImportantVisible(g, c)
                       /\ \E b \in inc : addedEdges \cap Joining(g, b, c) # {})
                        => c \in highlightedNodes'
              /\ \A b \in inc : \A c \in DOMAIN g.nodes \ {a, b} :
                   (/\ ~(c \in inc /\ ImportantVisible(g, b))
                    /\ addedEdges \cap edgesFromTo(g, c, b) # {})
                     => configuration.importantNeighborsBidirectional
              /\ \A b \in second : \A c \in second :
                   addedEdges \cap Joining(g, b, c) = {}]_vars

\* hover-enter on n1 right after render(), the important-only mode off and the
\* reverse edges not included: n3 is added through n2 with the edge e2 and
\* without the reverse edge e3; the hidden n4 is not added, and n6, which only
\* points to n5, is not added either
C30_Witness ==
  /\ call.op = "enterNode" /\ call.arg = "n1" /\ calls = 2
  /\ configuration.includeImportantNeighbors
  /\ ~configuration.importantNeighborsBidirectional
  /\ highlightedNodes = {"n1", "n2", "n5", "n3"}
  /\ highlightedEdges = {"e1", "e5", "e2"}

\* C31: mergeNodes(nodes) immediately followed by undo() leaves the edge set
\* unchanged: every edge that existed before the merge still exists with the
\* same end nodes and attributes.
C31_MergeNodesUndoKeepsEdges ==
  UndoneOnce("mergeNodes") => graphData.edges = track.before.graphData.edges

\* undo() and redo() do not throw: rendering is active and the history enabled
CanReplay == appState = ACTIVE /\ renderer.defined /\ isHistoryEnabled

\* C32: whenever the log holds an action that is not reverted, undo() returns
\* true and marks it reverted; whenever it holds a reverted action, redo()
\* returns true and un-marks it, also after a toggle called without argument.
C32_UndoRedoAlwaysAvailable ==
  [][/\ (call'.op = "undo" /\ CanReplay /\ hasLatestAction(history))
          => /\ ret' = "true"
             /\ history' = markLatestActionAsReverted(history)
     /\ (call'.op = "redo" /\ CanReplay /\ hasLatestRevertedAction(history))
          => /\ ret' = "true"
             /\ history' = markLatestRevertedActionAsNotReverted(history)]_vars

\* C33: toggleJustImportantEdgeRendering(b) immediately followed by undo()
\* restores the whole toggle state: the important-only flag and the
\* edge-rendering flag are as they were before the call.
C33_ImportantToggleUndo ==
  UndoneOnce("toggleJustImportantEdgeRendering")
    => /\ isJustImportantEdgesEnabled = track.before.isJustImportantEdgesEnabled
       /\ isEdgeRenderingDisabled = track.before.isEdgeRenderingDisabled

\* C34: in every reachable state every key in highlightedNodes is a node of
\* the graph and every key in highlightedEdges is an edge of the graph.
C34_HighlightedAreInGraph ==
  /\ highlightedNodes \subseteq DOMAIN graphData.nodes
  /\ highlightedEdges \subseteq DOMAIN graphData.edges

\* C35: exportGraph is a pure query: with either argument it leaves the graph,
\* the highlight sets and the history log unchanged and returns the nodes and
\* every edge of the graph.
C35_ExportIsPure ==
  [][call'.op = "exportGraph"
       => /\ graphData' = graphData
          /\ highlightedNodes' = highlightedNodes
          /\ highlightedEdges' = highlightedEdges
          /\ history' = history
          /\ ~call'.arg => ret'.edges = graphData.edges]_vars

\* C36: while the important-only mode is on, every edge that hover-enter adds
\* to highlightedEdges has important = true, between the hovered node and a
\* direct neighbor and between a direct neighbor and its important neighbor.
C36_OnlyImportantEdgesHighlighted ==
  [][(call'.op = "enterNode" /\ isJustImportantEdgesEnabled)
       => \A e \in highlightedEdges' \ highlightedEdges :
             /\ e \in DOMAIN graphData.edges
             /\ Has(graphData.edges[e].attributes, "important")
             /\ graphData.edges[e].attributes.important = TRUE]_vars

\* the node carries hidden = true
HiddenNode(g, n) == Has(g.nodes[n], "hidden") /\ g.nodes[n].hidden = TRUE

\* C37: starting from empty highlight sets, after hover-enter(n) the node n is
\* highlighted, no hidden node other than n is highlighted, every highlighted
\* edge has both end nodes highlighted, and when edge rendering is disabled or
\* n is hidden the sets are {n} and {}.
C37_HighlightIsClosed ==
  [][(/\ call'.op = "enterNode"
      /\ configuration.highlightSubGraphOnHover
      /\ highlightedNodes = {} /\ highlightedEdges = {})
       => LET g == graphData
              n == call'.arg
          IN  /\ n \in highlightedNodes'
              /\ \A m \in highlightedNodes' \ {n} :
                    m \in DOMAIN g.nodes /\ ~HiddenNode(g, m)
              /\ \A e \in highlightedEdges' :
                    /\ e \in DOMAIN g.edges
                    /\ g.edges[e].source \in highlightedNodes'
                    /\ g.edges[e].target \in highlightedNodes'
              /\ (isEdgeRenderingDisabled \/ HiddenNode(g, n))
                   => highlightedNodes' = {n} /\ highlightedEdges' = {}]_vars

\* hover-enter on the hidden node n3, from empty sets, after the neighbors of a
\* visible node had been highlighted and the pointer had left it
C37_Witness ==
  /\ call.op = "enterNode" /\ call.arg = "n3" /\ calls = 4
  /\ configuration.includeImportantNeighbors
  /\ highlightedNodes = {"n3"} /\ highlightedEdges = {}
  /\ \E m \in DOMAIN graphData.nodes : Has(graphData.nodes[m], "z")

\* C38: after every mouseup the drag state is reset: isNodeDragged is false,
\* no node is marked as dragged and the camera is enabled, whatever the app
\* mode was set to in between.
C38_MouseupResetsDrag ==
  [][call'.op = "mouseup"
       => /\ ~isNodeDragged'
          /\ renderer'.draggedNode = Undefined
          /\ renderer'.cameraEnabled]_vars

\* the node-info fetches that have not completed
Fetches == SelectSeq(env.pending, LAMBDA t : t.kind = "nodeInfo")

\* C39: in hover mode (showNodeInfoBoxOnClick false), once the pointer has
\* left the node and every pending fetch has completed, the info box is not
\* visible while no node is hovered.
C39_NoInfoBoxAfterLeave ==
  (/\ appState = ACTIVE /\ renderer.defined
   /\ ~configuration.showNodeInfoBoxOnClick
   /\ renderer.hovered = Undefined /\ hoveredNode = Undefined
   /\ Fetches = <<>>)
    => /\ ~isNodeInfoBoxContainerVisible
       /\ env.infoBoxClass # "cssShow"

\* C40: contextMenuOpened and contextMenuClosed strictly alternate: every
\* change of the context menu from shown to hidden emits contextMenuClosed, so
\* that contextMenuOpened is never emitted twice without a contextMenuClosed
\* in between, and contextMenuClosed is never emitted while the menu is not
\* open.
C40_ContextMenuEventsAlternate ==
  /\ [][(env.contextMenuClass = "cssShow" /\ env'.contextMenuClass # "cssShow")
          => env'.contextMenuClosed = env.contextMenuClosed + 1]_vars
  /\ [][env'.contextMenuOpened # env.contextMenuOpened
          => env.contextMenuOpened = env'.contextMenuClosed]_vars
  /\ [][env'.contextMenuClosed # env.contextMenuClosed
          => env.contextMenuClass = "cssShow"]_vars

====
